---- MODULE Spec2Model ----
(***************************************************************************)
(* Model of the CardsMPFramework server: the id-keyed Game, Hand and Room  *)
(* of src/shared/room.ts driven by the socket handlers of                   *)
(* src/server/handlers.ts.                                                  *)
(*                                                                          *)
(* A card is the integer c in 1..54 standing for the object that            *)
(* initializeDeck pushes at deck position c; CardState, CardSuit, CardRank  *)
(* and CardColor give back the fields of that object.  Arrays are           *)
(* sequences; the 0-based index i of the source is position i+1.            *)
(***************************************************************************)
EXTENDS Integers, Sequences, FiniteSets, TLC

(***************************************************************************)
(* Bounds of the model.                                                     *)
(***************************************************************************)
\* outcomes of Math.random enumerated for one shuffle: 0..MaxSeed
MaxSeed == 1
\* longest "lowest n cards of my hand" submission a client makes
MaxPlayLen == 2
\* accepted plays and passes explored in one round
MaxTurns == 4
\* rounds (successful tryStartRoom calls) explored
MaxRounds == 2
\* create-room, join-room, leave-room and disconnect events explored
MaxChurn == 2
\* outcomes of Math.random enumerated for the shuffles of SpecLobby: 0..MaxShuffleSeed
MaxShuffleSeed == 40
\* accepted plays explored in one round of SpecServer
MaxServerTurns == 1

(***************************************************************************)
(* Cards (type Card, Suit, Rank of room.ts).                                *)
(***************************************************************************)
suits == <<"h", "d", "c", "s">>
ranks == <<"3", "4", "5", "6", "7", "8", "9", "t", "j", "q", "k", "a", "2">>

Revealed(suitIx, rankIx) == (suitIx - 1) * Len(ranks) + rankIx
BlackJoker == Len(suits) * Len(ranks) + 1
RedJoker == Len(suits) * Len(ranks) + 2
Cards == 1..RedJoker

CardState(c) == IF c >= BlackJoker THEN "Joker" ELSE "Revealed"
CardSuit(c) == suits[((c - 1) \div Len(ranks)) + 1]
CardRank(c) == ranks[((c - 1) % Len(ranks)) + 1]
CardColor(c) == IF c = BlackJoker THEN "BLACK" ELSE "RED"

\* Hand.cardsEqual: same variant and same suit+rank, or same joker colour
cardsEqual(a, b) ==
    IF CardState(a) = "Joker" /\ CardState(b) = "Joker"
    THEN CardColor(a) = CardColor(b)
    ELSE IF CardState(a) = "Revealed" /\ CardState(b) = "Revealed"
         THEN CardSuit(a) = CardSuit(b) /\ CardRank(a) = CardRank(b)
         ELSE FALSE

\* the rankValues table of Hand.getCardValue
rankValues ==
    [r \in {ranks[i] : i \in 1..Len(ranks)} |->
        CASE r = "3" -> 3 [] r = "4" -> 4 [] r = "5" -> 5 [] r = "6" -> 6
          [] r = "7" -> 7 [] r = "8" -> 8 [] r = "9" -> 9 [] r = "t" -> 10
          [] r = "j" -> 11 [] r = "q" -> 12 [] r = "k" -> 13 [] r = "a" -> 14
          [] r = "2" -> 15]

\* mutant of getCardValue: the "2" counts by its face, below the "3"
getCardValue_TwoLow(c) ==
    IF CardState(c) = "Joker"
    THEN (IF CardColor(c) = "BLACK" THEN 53 ELSE 54)
    ELSE IF CardRank(c) = "2" THEN 2 ELSE rankValues[CardRank(c)]

getCardValue(c) ==
    IF CardState(c) = "Joker"
    THEN (IF CardColor(c) = "BLACK" THEN 53 ELSE 54)
    ELSE rankValues[CardRank(c)]

(***************************************************************************)
(* Hand: sort (stable, ascending by value) and remove-by-identity.          *)
(***************************************************************************)
\* c inserted into the sorted s behind the cards it does not precede: the
\* comparator getCardValue(a) - getCardValue(b) is <= 0 for them
InsertByValue(s, c) ==
    LET k == Cardinality({i \in 1..Len(s) : getCardValue(s[i]) - getCardValue(c) <= 0})
    IN  SubSeq(s, 1, k) \o <<c>> \o SubSeq(s, k + 1, Len(s))

\* acc: the first Len(acc) cards of cards, sorted
RECURSIVE sortFrom(_, _)
sortFrom(cards, acc) ==
    IF Len(acc) >= Len(cards) THEN acc
    ELSE sortFrom(cards, InsertByValue(acc, cards[Len(acc) + 1]))

\* mutant of sort: the cards stay in the order given
sort_AsGiven(cards) == cards

\* Hand.sort / the sort of validatePlay (Array.prototype.sort is stable)
sort(cards) == sortFrom(cards, <<>>)

\* Array.findIndex with cardsEqual, 0 when not found
findIndex(cards, card) ==
    IF \E i \in 1..Len(cards) : cardsEqual(cards[i], card)
    THEN CHOOSE i \in 1..Len(cards) :
            /\ cardsEqual(cards[i], card)
            /\ \A j \in 1..(i - 1) : ~cardsEqual(cards[j], card)
    ELSE 0

splice(cards, i) == SubSeq(cards, 1, i - 1) \o SubSeq(cards, i + 1, Len(cards))

RECURSIVE removeFrom(_, _, _)
removeFrom(handCards, cards, i) ==
    IF i > Len(cards) \/ Len(handCards) = 0 THEN handCards
    ELSE LET index == findIndex(handCards, cards[i])
         IN  removeFrom(IF index # 0 THEN splice(handCards, index) ELSE handCards,
                        cards, i + 1)

\* Hand.remove: a card that is not found is skipped silently
remove(handCards, cards) == removeFrom(handCards, cards, 1)

(***************************************************************************)
(* Deck: initializeDeck, shuffleDeck, dealCards.                            *)
(***************************************************************************)
initializeDeck ==
    [i \in 1..RedJoker |->
        IF i = RedJoker THEN RedJoker
        ELSE IF i = BlackJoker THEN BlackJoker
        ELSE Revealed(((i - 1) \div Len(ranks)) + 1, ((i - 1) % Len(ranks)) + 1)]

\* Math.floor(Math.random() * (index + 1)) along one run of the shuffle that
\* deals twenty cards forming ten consecutive pairs to seat 0 plus the bottom
DealtPairsRandom ==
    <<1, 1, 3, 4, 3, 2, 4, 5, 6, 7, 9, 3, 11, 8, 6, 6, 10, 4, 11, 12, 17, 9,
      21, 5, 19, 23, 18, 7, 25, 6, 11, 9, 19, 7, 11, 7, 37, 24, 20, 38, 22, 8,
      10, 12, 21, 23, 25, 9, 11, 24, 22, 24, 53>>

\* the seed-th enumerated outcome of Math.floor(Math.random() * (index + 1)),
\* always within 0..index
RandomIndex(seed, index) ==
    IF seed = 0 /\ index <= Len(DealtPairsRandom)
    THEN DealtPairsRandom[index]
    ELSE (index * seed) % (index + 1)

Seeds == 0..MaxSeed
ShuffleSeeds == 0..MaxShuffleSeed

\* mutant of swap: the second assignment of the exchange is missing
swap_Overwrite(deck, i, j) == [deck EXCEPT ![i] = deck[j]]

swap(deck, i, j) == [deck EXCEPT ![i] = deck[j], ![j] = deck[i]]

\* the iterations index = hi, hi - 1, .., lo of the loop of shuffleDeck,
\* run as the upper half of the range followed by the lower half
RECURSIVE shuffleSteps(_, _, _, _)
shuffleSteps(deck, hi, lo, seed) ==
    IF hi < lo \/ Len(deck) = 0 THEN deck
    ELSE IF hi = lo THEN swap(deck, hi + 1, RandomIndex(seed, hi) + 1)
    ELSE LET mid == (hi + lo) \div 2
         IN  shuffleSteps(shuffleSteps(deck, hi, mid + 1, seed), mid, lo, seed)

shuffleDeck(deck, seed) == shuffleSteps(deck, Len(deck) - 1, 1, seed)

HandSize == 17
BottomSize == 3

\* mutant of dealtTo: cardIndex starts at 0, inside the landlordCards
dealtTo_FromDeckStart(deck, p, n) ==
    [i \in 1..HandSize |-> deck[(i - 1) * n + p + 1]]

\* the cards pushed to the hand of the player at 0-based seat p of n players
dealtTo(deck, p, n) ==
    [i \in 1..HandSize |-> deck[BottomSize + (i - 1) * n + p + 1]]

(***************************************************************************)
(* Play classification and comparison (Game.validatePlay, Game.canBeat).    *)
(***************************************************************************)
\* an absent Play (undefined in the source)
NoPlay == [cards |-> <<>>, type |-> "undefined", value |-> 0]

Play(cards, type, value) == [cards |-> cards, type |-> type, value |-> value]

\* the key countRanks files a card under
RankKey(c) ==
    IF CardState(c) = "Joker"
    THEN (IF CardColor(c) = "BLACK" THEN "joker_BLACK" ELSE "joker_RED")
    ELSE CardRank(c)

countRanks(cards) ==
    [k \in {RankKey(cards[i]) : i \in 1..Len(cards)} |->
        Cardinality({i \in 1..Len(cards) : RankKey(cards[i]) = k})]

\* mutant of isStraight: the test against the "2" is missing
isStraight_AllowsTwo(sorted, groupSize) ==
    IF Len(sorted) % groupSize # 0 THEN FALSE
    ELSE IF \E i \in 1..Len(sorted) : CardState(sorted[i]) = "Joker" THEN FALSE
    ELSE LET numberGroups == Len(sorted) \div groupSize
             first(index) == sorted[index * groupSize + 1]
             groupOk(index) ==
                /\ \A i \in (index * groupSize + 1)..((index + 1) * groupSize) :
                      /\ CardState(sorted[i]) = "Revealed"
                      /\ CardRank(sorted[i]) = CardRank(first(index))
                /\ index > 0 =>
                      LET expectedValue == getCardValue(first(index - 1)) + 1
                          actualValue == getCardValue(first(index))
                      IN  ~(actualValue # expectedValue)
         IN  /\ \A index \in 0..(numberGroups - 1) : groupOk(index)
             /\ numberGroups >= (IF groupSize = 1 THEN 5
                                 ELSE IF groupSize = 2 THEN 3 ELSE 2)

\* mutant of isStraight: a group need only be of a higher rank than the one
\* before it
isStraight_SkipsRanks(sorted, groupSize) ==
    IF Len(sorted) % groupSize # 0 THEN FALSE
    ELSE IF \E i \in 1..Len(sorted) : CardState(sorted[i]) = "Joker" THEN FALSE
    ELSE LET numberGroups == Len(sorted) \div groupSize
             first(index) == sorted[index * groupSize + 1]
             groupOk(index) ==
                /\ \A i \in (index * groupSize + 1)..((index + 1) * groupSize) :
                      /\ CardState(sorted[i]) = "Revealed"
                      /\ CardRank(sorted[i]) = CardRank(first(index))
                /\ index > 0 =>
                      LET expectedValue == getCardValue(first(index - 1)) + 1
                          actualValue == getCardValue(first(index))
                      IN  ~(actualValue < expectedValue \/ actualValue >= 15)
         IN  /\ \A index \in 0..(numberGroups - 1) : groupOk(index)
             /\ numberGroups >= (IF groupSize = 1 THEN 5
                                 ELSE IF groupSize = 2 THEN 3 ELSE 2)

isStraight(sorted, groupSize) ==
    IF Len(sorted) % groupSize # 0 THEN FALSE
    ELSE IF \E i \in 1..Len(sorted) : CardState(sorted[i]) = "Joker" THEN FALSE
    ELSE LET numberGroups == Len(sorted) \div groupSize
             first(index) == sorted[index * groupSize + 1]
             groupOk(index) ==
                /\ \A i \in (index * groupSize + 1)..((index + 1) * groupSize) :
                      /\ CardState(sorted[i]) = "Revealed"
                      /\ CardRank(sorted[i]) = CardRank(first(index))
                /\ index > 0 =>
                      LET expectedValue == getCardValue(first(index - 1)) + 1
                          actualValue == getCardValue(first(index))
                      IN  ~(actualValue # expectedValue \/ actualValue >= 15)
         IN  /\ \A index \in 0..(numberGroups - 1) : groupOk(index)
             /\ numberGroups >= (IF groupSize = 1 THEN 5
                                 ELSE IF groupSize = 2 THEN 3 ELSE 2)

\* mutant of findTripleCard: the lowest card of the play gives the value
findTripleCard_Lowest(sorted, tripleRank) == sorted[1]

\* sorted.find(c => (Revealed and rank = tripleRank) or Joker), as a card
findTripleCard(sorted, tripleRank) ==
    LET hit(i) == \/ CardState(sorted[i]) = "Revealed" /\ CardRank(sorted[i]) = tripleRank
                  \/ CardState(sorted[i]) = "Joker"
    IN  sorted[CHOOSE i \in 1..Len(sorted) :
                  hit(i) /\ \A j \in 1..(i - 1) : ~hit(j)]

\* mutant of validatePlay: four of a kind with two single cards is a play
validatePlay_QuadWithSingles(cards) ==
    IF Len(cards) = 0 THEN NoPlay
    ELSE
    LET sorted == sort(cards)
        rankCounts == countRanks(sorted)
        uniqueRanks == DOMAIN rankCounts
        countsLength == Cardinality(uniqueRanks)
        includes(n) == \E k \in uniqueRanks : rankCounts[k] = n
        \* counts.length = 1 and counts[0] = n
        single(n) == countsLength = 1 /\ includes(n)
        tripleRank == CHOOSE r \in uniqueRanks : rankCounts[r] = 3
    IN  IF /\ Len(sorted) = 2
           /\ CardState(sorted[1]) = "Joker"
           /\ CardState(sorted[2]) = "Joker"
        THEN Play(cards, "rocket", 1000)
        ELSE IF Len(sorted) = 4 /\ single(4)
        THEN Play(cards, "bomb", 100 + getCardValue(sorted[1]))
        ELSE IF Len(sorted) = 6 /\ countsLength = 3 /\ includes(4) /\ includes(1)
        THEN Play(cards, "quad_with_singles", getCardValue(sorted[3]))
        ELSE IF Len(sorted) = 1
        THEN Play(cards, "solo", getCardValue(sorted[1]))
        ELSE IF Len(sorted) = 2 /\ single(2)
        THEN Play(cards, "pair", getCardValue(sorted[1]))
        ELSE IF Len(sorted) = 3 /\ single(3)
        THEN Play(cards, "triple", getCardValue(sorted[1]))
        ELSE IF Len(sorted) = 4 /\ countsLength = 2 /\ includes(3) /\ includes(1)
        THEN Play(cards, "triple_with_single",
                  getCardValue(findTripleCard(sorted, tripleRank)))
        ELSE IF Len(sorted) = 5 /\ countsLength = 2 /\ includes(3) /\ includes(2)
        THEN Play(cards, "triple_with_pair",
                  getCardValue(findTripleCard(sorted, tripleRank)))
        ELSE IF Len(sorted) >= 5 /\ isStraight(sorted, 1)
        THEN Play(cards, "straight", getCardValue(sorted[1]))
        ELSE IF Len(sorted) >= 6 /\ Len(sorted) % 2 = 0 /\ isStraight(sorted, 2)
        THEN Play(cards, "pair_straight", getCardValue(sorted[1]))
        ELSE IF Len(sorted) >= 6 /\ Len(sorted) % 3 = 0 /\ isStraight(sorted, 3)
        THEN Play(cards, "triple_straight", getCardValue(sorted[1]))
        ELSE NoPlay

validatePlay(cards) ==
    IF Len(cards) = 0 THEN NoPlay
    ELSE
    LET sorted == sort(cards)
        rankCounts == countRanks(sorted)
        uniqueRanks == DOMAIN rankCounts
        countsLength == Cardinality(uniqueRanks)
        includes(n) == \E k \in uniqueRanks : rankCounts[k] = n
        \* counts.length = 1 and counts[0] = n
        single(n) == countsLength = 1 /\ includes(n)
        tripleRank == CHOOSE r \in uniqueRanks : rankCounts[r] = 3
    IN  IF /\ Len(sorted) = 2
           /\ CardState(sorted[1]) = "Joker"
           /\ CardState(sorted[2]) = "Joker"
        THEN Play(cards, "rocket", 1000)
        ELSE IF Len(sorted) = 4 /\ single(4)
        THEN Play(cards, "bomb", 100 + getCardValue(sorted[1]))
        ELSE IF Len(sorted) = 1
        THEN Play(cards, "solo", getCardValue(sorted[1]))
        ELSE IF Len(sorted) = 2 /\ single(2)
        THEN Play(cards, "pair", getCardValue(sorted[1]))
        ELSE IF Len(sorted) = 3 /\ single(3)
        THEN Play(cards, "triple", getCardValue(sorted[1]))
        ELSE IF Len(sorted) = 4 /\ countsLength = 2 /\ includes(3) /\ includes(1)
        THEN Play(cards, "triple_with_single",
                  getCardValue(findTripleCard(sorted, tripleRank)))
        ELSE IF Len(sorted) = 5 /\ countsLength = 2 /\ includes(3) /\ includes(2)
        THEN Play(cards, "triple_with_pair",
                  getCardValue(findTripleCard(sorted, tripleRank)))
        ELSE IF Len(sorted) >= 5 /\ isStraight(sorted, 1)
        THEN Play(cards, "straight", getCardValue(sorted[1]))
        ELSE IF Len(sorted) >= 6 /\ Len(sorted) % 2 = 0 /\ isStraight(sorted, 2)
        THEN Play(cards, "pair_straight", getCardValue(sorted[1]))
        ELSE IF Len(sorted) >= 6 /\ Len(sorted) % 3 = 0 /\ isStraight(sorted, 3)
        THEN Play(cards, "triple_straight", getCardValue(sorted[1]))
        ELSE NoPlay

\* mutant of canBeat: among plays of one type an equal value wins as well
canBeat_TiesWin(play, lastPlay) ==
    IF play.type = "rocket" THEN TRUE
    ELSE IF play.type = "bomb"
         THEN IF lastPlay.type = "rocket" THEN FALSE
              ELSE IF lastPlay.type = "bomb" THEN play.value > lastPlay.value
              ELSE TRUE
    ELSE IF play.type # lastPlay.type THEN FALSE
    ELSE IF Len(play.cards) # Len(lastPlay.cards) THEN FALSE
    ELSE play.value >= lastPlay.value

\* mutant of canBeat: the card counts are not compared
canBeat_AnyCount(play, lastPlay) ==
    IF play.type = "rocket" THEN TRUE
    ELSE IF play.type = "bomb"
         THEN IF lastPlay.type = "rocket" THEN FALSE
              ELSE IF lastPlay.type = "bomb" THEN play.value > lastPlay.value
              ELSE TRUE
    ELSE IF play.type # lastPlay.type THEN FALSE
    ELSE play.value > lastPlay.value

canBeat(play, lastPlay) ==
    IF play.type = "rocket" THEN TRUE
    ELSE IF play.type = "bomb"
         THEN IF lastPlay.type = "rocket" THEN FALSE
              ELSE IF lastPlay.type = "bomb" THEN play.value > lastPlay.value
              ELSE TRUE
    ELSE IF play.type # lastPlay.type THEN FALSE
    ELSE IF Len(play.cards) # Len(lastPlay.cards) THEN FALSE
    ELSE play.value > lastPlay.value


(***************************************************************************)
(* State.                                                                   *)
(***************************************************************************)
\* client connections the server may see
MaxSockets == 4
\* Room objects the server may create
MaxRooms == 2
\* rooms.size from which createRoom refuses
RoomLimit == 10000

Sockets == 1..MaxSockets
RoomIds == 1..MaxRooms

\* players.size a room needs to start (Room.tryStartRoom)
SeatCount == 3

VARIABLES
    rooms,      \* server.ts `rooms`: the ids of the Room objects in the registry
    room,       \* the Room objects: players (roster, insertion order), status, game
    socket,     \* per GameSocket: conn ("none", "up", "down") and room (0: undefined)
    player,     \* per GameSocket, its socket.player object: id, status, hand
    last,       \* history: the engine call or handler that ran last and its outcome
    hist,       \* history, per Room object, of its current round (see NewRound)
    rounds,     \* history: successful tryStartRoom calls
    churn,      \* history: create-room, join-room, leave-room and disconnect events
    applied,    \* the last call of a static method of Game (see NoApplication)
    indexed     \* the index-keyed Game of src/shared/game.ts (see NewIndexed)

vars == <<rooms, room, socket, player, last, hist, rounds, churn, applied, indexed>>

\* new Game()
NewGame ==
    [deck |-> <<>>, landlordCards |-> <<>>, currentPlayerId |-> 0,
     landlordId |-> 0, lastPlay |-> NoPlay, phase |-> "bidding", passCount |-> 0]

\* new Room(code); code 0 marks a Room object that was never constructed
NewRoom(code) == [code |-> code, players |-> <<>>, status |-> "lobby", game |-> NewGame]

\* new Player(id)
NewPlayer(id) == [id |-> id, status |-> "not-ready", hand |-> <<>>]

\* last: the handler that ran last, the socket that sent the event, and
\* whether the engine accepted (toggle-ready: whether tryStartRoom returned true)
NoCall == [op |-> "none", who |-> 0, ok |-> FALSE]
Call(op, who, ok) == [op |-> op, who |-> who, ok |-> ok]

\* applied: a call of Game.validatePlay(cards) or Game.canBeat(play, lastPlay)
\* made on its own, outside the handlers:
\*   fn        the method called ("none": the arguments were chosen, no call yet)
\*   cards     the array handed to validatePlay
\*   play      its result
\*   lastCards the array whose classification is canBeat's second argument
\*   lastPlay  that classification
\*   beats     the result of canBeat(play, lastPlay)
\*   thirdCards, thirdPlay  a third array and its classification
\*   back, lastBeats, through  the results of canBeat(lastPlay, play),
\*             canBeat(lastPlay, thirdPlay) and canBeat(play, thirdPlay)
NoApplication ==
    [fn |-> "none", cards |-> <<>>, play |-> NoPlay,
     lastCards |-> <<>>, lastPlay |-> NoPlay, beats |-> FALSE,
     thirdCards |-> <<>>, thirdPlay |-> NoPlay,
     back |-> FALSE, lastBeats |-> FALSE, through |-> FALSE]

\* an absent Play of the index-keyed Game; Undefined stands for an index
\* that is undefined in the source
Undefined == -1
NoIndexedPlay == [cards |-> <<>>, type |-> "undefined", value |-> 0, playerIndex |-> Undefined]

\* new Game() of game.ts; players holds the hand of the Player at each index
NewIndexedGame ==
    [bottom |-> <<>>, players |-> <<>>, currentIndex |-> 0, bet |-> 0,
     landlordIndex |-> Undefined, lastPlay |-> NoIndexedPlay, phase |-> "finished"]

\* indexed: the Game object of a Room of the index-keyed revision and the
\* history of the calls made on it:
\*   game     the Game object
\*   fn, arg  the method called last and its argument (a bet or a card array)
\*   result   what it returned: "true", "false" or "undefined"
\*   before   currentIndex and lastPlay when that call was made
\*   round    startGame calls so far
\*   top      the highest bet made since the last startGame (0: none)
\*   highest  the index of the player who made it first (Undefined: nobody)
\*   quiet    betLandlord calls that returned false since the last raise
\*            or, before any raise, since startGame
\*   over     a betLandlord call of this round has returned true
\*   openings playCards([]) calls made while lastPlay was undefined
NewIndexed ==
    [game |-> NewIndexedGame, fn |-> "none", arg |-> <<>>, result |-> "undefined",
     before |-> [currentIndex |-> 0, lastPlay |-> NoIndexedPlay],
     round |-> 0, top |-> 0, highest |-> Undefined, quiet |-> 0, over |-> FALSE,
     openings |-> 0]

\* hist[r] at a successful tryStartRoom of room r:
\*   seating   ids of the players handed to startGame, in order
\*   landlords accepted becomeLandlord calls of the round
\*   turns     accepted plays and passes of the round
\*   leader    id of the player whose play was accepted last (0: none yet)
\*   beaten    the lastPlay that play replaced
\*   passes    accepted passes since that play
NewRound(seating) ==
    [seating |-> seating, landlords |-> 0, turns |-> 0,
     leader |-> 0, beaten |-> NoPlay, passes |-> 0]

(***************************************************************************)
(* Game: startGame, dealCards, becomeLandlord, playCards, pass.  Each is an *)
(* operator from the game g and the Player objects pl to the game and the   *)
(* Player objects after the call and, where the method returns one, its     *)
(* result ok.  A Player object is named by the socket that owns it.         *)
(***************************************************************************)
Result(ok, g, pl) == [ok |-> ok, game |-> g, player |-> pl]

\* 0-based players.findIndex(p => p.id === id), -1 when absent
findIndexById(pl, players, id) ==
    IF \E i \in 1..Len(players) : pl[players[i]].id = id
    THEN (CHOOSE i \in 1..Len(players) :
            /\ pl[players[i]].id = id
            /\ \A j \in 1..(i - 1) : pl[players[j]].id # id) - 1
    ELSE -1

dealCards(g, pl, players) ==
    LET seat(o) == CHOOSE i \in 1..Len(players) : players[i] = o
        seated == {players[i] : i \in 1..Len(players)}
    IN  Result(TRUE,
               [g EXCEPT !.landlordCards = SubSeq(g.deck, 1, BottomSize)],
               [o \in DOMAIN pl |->
                   IF o \in seated
                   THEN [pl[o] EXCEPT !.hand =
                           sort(dealtTo(g.deck, seat(o) - 1, Len(players)))]
                   ELSE pl[o]])

\* mutant of startGame: the phase is left as the last round ended
startGame_KeepsPhase(g, pl, players, seed) ==
    IF Len(players) # 3 THEN Result(FALSE, g, pl)
    ELSE LET dealt == dealCards([g EXCEPT !.deck = shuffleDeck(initializeDeck, seed)],
                                pl, players)
         IN  Result(TRUE,
                    [dealt.game EXCEPT !.currentPlayerId = pl[players[1]].id],
                    dealt.player)

startGame(g, pl, players, seed) ==
    IF Len(players) # 3 THEN Result(FALSE, g, pl)
    ELSE LET dealt == dealCards([g EXCEPT !.deck = shuffleDeck(initializeDeck, seed)],
                                pl, players)
         IN  Result(TRUE,
                    [dealt.game EXCEPT !.phase = "bidding",
                                       !.currentPlayerId = pl[players[1]].id],
                    dealt.player)

\* mutant of becomeLandlord: the phase guard is missing
becomeLandlord_AnyPhase(g, pl, p) ==
    Result(TRUE,
           [g EXCEPT !.landlordId = pl[p].id,
                     !.phase = "playing",
                     !.currentPlayerId = pl[p].id,
                     !.lastPlay = NoPlay,
                     !.passCount = 0],
           [pl EXCEPT ![p].hand = sort(pl[p].hand \o g.landlordCards)])

becomeLandlord(g, pl, p) ==
    IF g.phase # "bidding" THEN Result(FALSE, g, pl)
    ELSE Result(TRUE,
                [g EXCEPT !.landlordId = pl[p].id,
                          !.phase = "playing",
                          !.currentPlayerId = pl[p].id,
                          !.lastPlay = NoPlay,
                          !.passCount = 0],
                [pl EXCEPT ![p].hand = sort(pl[p].hand \o g.landlordCards)])

\* the "Move to next player" lines of playCards and pass
nextPlayerId(g, pl, players) ==
    LET currentIndex == findIndexById(pl, players, g.currentPlayerId)
        nextIndex == (currentIndex + 1) % Len(players)
    IN  pl[players[nextIndex + 1]].id

\* mutant of playCards: the cards leave the hand before the canBeat check
playCards_RemovesBeforeReject(g, pl, p, cards, players) ==
    LET play == validatePlay(cards)
        handCards == remove(pl[p].hand, cards)
        played == [g EXCEPT !.lastPlay = play, !.passCount = 0]
    IN  IF g.phase # "playing" THEN Result(FALSE, g, pl)
        ELSE IF pl[p].id # g.currentPlayerId THEN Result(FALSE, g, pl)
        ELSE IF play = NoPlay THEN Result(FALSE, g, pl)
        ELSE IF /\ g.lastPlay # NoPlay
                /\ g.passCount < 2
                /\ ~canBeat(play, g.lastPlay)
             THEN Result(FALSE, g, [pl EXCEPT ![p].hand = handCards])
        ELSE IF Len(handCards) = 0
             THEN Result(TRUE, [played EXCEPT !.phase = "finished"],
                         [pl EXCEPT ![p].hand = handCards])
        ELSE Result(TRUE,
                    [played EXCEPT !.currentPlayerId = nextPlayerId(g, pl, players)],
                    [pl EXCEPT ![p].hand = handCards])

\* mutant of playCards: lastPlay need not be beaten once somebody has passed
playCards_NoBeatAfterPass(g, pl, p, cards, players) ==
    LET play == validatePlay(cards)
        handCards == remove(pl[p].hand, cards)
        played == [g EXCEPT !.lastPlay = play, !.passCount = 0]
    IN  IF g.phase # "playing" THEN Result(FALSE, g, pl)
        ELSE IF pl[p].id # g.currentPlayerId THEN Result(FALSE, g, pl)
        ELSE IF play = NoPlay THEN Result(FALSE, g, pl)
        ELSE IF /\ g.lastPlay # NoPlay
                /\ g.passCount < 1
                /\ ~canBeat(play, g.lastPlay)
             THEN Result(FALSE, g, pl)
        ELSE IF Len(handCards) = 0
             THEN Result(TRUE, [played EXCEPT !.phase = "finished"],
                         [pl EXCEPT ![p].hand = handCards])
        ELSE Result(TRUE,
                    [played EXCEPT !.currentPlayerId = nextPlayerId(g, pl, players)],
                    [pl EXCEPT ![p].hand = handCards])

\* mutant of playCards: the turn advances after the winning play too
playCards_AdvancesAfterWin(g, pl, p, cards, players) ==
    LET play == validatePlay(cards)
        handCards == remove(pl[p].hand, cards)
        played == [g EXCEPT !.lastPlay = play, !.passCount = 0]
    IN  IF g.phase # "playing" THEN Result(FALSE, g, pl)
        ELSE IF pl[p].id # g.currentPlayerId THEN Result(FALSE, g, pl)
        ELSE IF play = NoPlay THEN Result(FALSE, g, pl)
        ELSE IF /\ g.lastPlay # NoPlay
                /\ g.passCount < 2
                /\ ~canBeat(play, g.lastPlay)
             THEN Result(FALSE, g, pl)
        ELSE IF Len(handCards) = 0
             THEN Result(TRUE,
                         [played EXCEPT !.phase = "finished",
                                        !.currentPlayerId = nextPlayerId(g, pl, players)],
                         [pl EXCEPT ![p].hand = handCards])
        ELSE Result(TRUE,
                    [played EXCEPT !.currentPlayerId = nextPlayerId(g, pl, players)],
                    [pl EXCEPT ![p].hand = handCards])

\* mutant of playCards: an accepted play leaves passCount as it was
playCards_KeepsPassCount(g, pl, p, cards, players) ==
    LET play == validatePlay(cards)
        handCards == remove(pl[p].hand, cards)
        played == [g EXCEPT !.lastPlay = play]
    IN  IF g.phase # "playing" THEN Result(FALSE, g, pl)
        ELSE IF pl[p].id # g.currentPlayerId THEN Result(FALSE, g, pl)
        ELSE IF play = NoPlay THEN Result(FALSE, g, pl)
        ELSE IF /\ g.lastPlay # NoPlay
                /\ g.passCount < 2
                /\ ~canBeat(play, g.lastPlay)
             THEN Result(FALSE, g, pl)
        ELSE IF Len(handCards) = 0
             THEN Result(TRUE, [played EXCEPT !.phase = "finished"],
                         [pl EXCEPT ![p].hand = handCards])
        ELSE Result(TRUE,
                    [played EXCEPT !.currentPlayerId = nextPlayerId(g, pl, players)],
                    [pl EXCEPT ![p].hand = handCards])

playCards(g, pl, p, cards, players) ==
    LET play == validatePlay(cards)
        handCards == remove(pl[p].hand, cards)
        played == [g EXCEPT !.lastPlay = play, !.passCount = 0]
    IN  IF g.phase # "playing" THEN Result(FALSE, g, pl)
        ELSE IF pl[p].id # g.currentPlayerId THEN Result(FALSE, g, pl)
        ELSE IF play = NoPlay THEN Result(FALSE, g, pl)
        ELSE IF /\ g.lastPlay # NoPlay
                /\ g.passCount < 2
                /\ ~canBeat(play, g.lastPlay)
             THEN Result(FALSE, g, pl)
        ELSE IF Len(handCards) = 0
             THEN Result(TRUE, [played EXCEPT !.phase = "finished"],
                         [pl EXCEPT ![p].hand = handCards])
        ELSE Result(TRUE,
                    [played EXCEPT !.currentPlayerId = nextPlayerId(g, pl, players)],
                    [pl EXCEPT ![p].hand = handCards])

\* mutant of pass: the pass that clears the trick does not advance the turn
pass_KeepsTurnOnClear(g, pl, p, players) ==
    LET counted == [g EXCEPT !.passCount = g.passCount + 1]
    IN  IF g.phase # "playing" THEN Result(FALSE, g, pl)
        ELSE IF pl[p].id # g.currentPlayerId THEN Result(FALSE, g, pl)
        ELSE IF g.lastPlay = NoPlay THEN Result(FALSE, g, pl)
        ELSE IF counted.passCount >= 2
             THEN Result(TRUE, [counted EXCEPT !.lastPlay = NoPlay, !.passCount = 0], pl)
        ELSE Result(TRUE,
                    [counted EXCEPT !.currentPlayerId = nextPlayerId(g, pl, players)],
                    pl)

\* mutant of pass: the lastPlay guard is missing
pass_OpensTrick(g, pl, p, players) ==
    LET counted == [g EXCEPT !.passCount = g.passCount + 1]
        cleared == IF counted.passCount >= 2
                   THEN [counted EXCEPT !.lastPlay = NoPlay, !.passCount = 0]
                   ELSE counted
    IN  IF g.phase # "playing" THEN Result(FALSE, g, pl)
        ELSE IF pl[p].id # g.currentPlayerId THEN Result(FALSE, g, pl)
        ELSE Result(TRUE,
                    [cleared EXCEPT !.currentPlayerId = nextPlayerId(g, pl, players)],
                    pl)

pass(g, pl, p, players) ==
    LET counted == [g EXCEPT !.passCount = g.passCount + 1]
        cleared == IF counted.passCount >= 2
                   THEN [counted EXCEPT !.lastPlay = NoPlay, !.passCount = 0]
                   ELSE counted
    IN  IF g.phase # "playing" THEN Result(FALSE, g, pl)
        ELSE IF pl[p].id # g.currentPlayerId THEN Result(FALSE, g, pl)
        ELSE IF g.lastPlay = NoPlay THEN Result(FALSE, g, pl)
        ELSE Result(TRUE,
                    [cleared EXCEPT !.currentPlayerId = nextPlayerId(g, pl, players)],
                    pl)

(***************************************************************************)
(* Room: tryStartRoom, endRoom, allPlayersDisconnected.  R is the Room      *)
(* object; the result carries the Room and the Player objects afterwards.   *)
(***************************************************************************)
RoomResult(ok, R, pl) == [ok |-> ok, room |-> R, player |-> pl]

\* mutant of tryStartRoom: the players.size check is missing
tryStartRoom_AnyCount(R, pl, seed) ==
    IF R.status # "lobby" THEN RoomResult(FALSE, R, pl)
    ELSE IF \E i \in 1..Len(R.players) : pl[R.players[i]].status # "ready"
         THEN RoomResult(FALSE, R, pl)
    ELSE LET started == startGame(R.game, pl, R.players, seed)
         IN  RoomResult(TRUE,
                        [R EXCEPT !.status = "playing", !.game = started.game],
                        started.player)

tryStartRoom(R, pl, seed) ==
    IF R.status # "lobby" THEN RoomResult(FALSE, R, pl)
    ELSE IF Len(R.players) # SeatCount THEN RoomResult(FALSE, R, pl)
    ELSE IF \E i \in 1..Len(R.players) : pl[R.players[i]].status # "ready"
         THEN RoomResult(FALSE, R, pl)
    ELSE LET started == startGame(R.game, pl, R.players, seed)
         IN  RoomResult(TRUE,
                        [R EXCEPT !.status = "playing", !.game = started.game],
                        started.player)

\* mutant of endRoom: DISCONNECTED players are reset like the others
endRoom_KeepsDisconnected(R, pl) ==
    LET roster == {R.players[i] : i \in 1..Len(R.players)}
    IN  RoomResult(TRUE,
                   [R EXCEPT !.status = "lobby"],
                   [o \in DOMAIN pl |->
                       IF o \in roster
                       THEN [pl[o] EXCEPT !.status = "not-ready", !.hand = <<>>]
                       ELSE pl[o]])

endRoom(R, pl) ==
    LET stays(o) == pl[o].status # "disconnected"
        roster == {R.players[i] : i \in 1..Len(R.players)}
    IN  RoomResult(TRUE,
                   [R EXCEPT !.status = "lobby",
                             !.players = SelectSeq(R.players, stays)],
                   [o \in DOMAIN pl |->
                       IF o \in roster /\ stays(o)
                       THEN [pl[o] EXCEPT !.status = "not-ready", !.hand = <<>>]
                       ELSE pl[o]])

allPlayersDisconnected(R, pl) ==
    IF Len(R.players) = 0 THEN TRUE
    ELSE \A i \in 1..Len(R.players) : pl[R.players[i]].status = "disconnected"


(***************************************************************************)
(* Client submissions explored for play-cards: nothing, the whole hand, the *)
(* lowest or highest n cards of the sender's hand, and both jokers whether  *)
(* the sender holds them or not.                                            *)
(***************************************************************************)
Rocket == <<BlackJoker, RedJoker>>

InputCards(handCards) ==
    LET lengths == {n \in 1..MaxPlayLen : n <= Len(handCards)}
    IN  {<<>>, handCards, Rocket}
        \cup {SubSeq(handCards, 1, n) : n \in lengths}
        \cup {SubSeq(handCards, Len(handCards) - n + 1, Len(handCards)) : n \in lengths}

(***************************************************************************)
(* Socket handlers of setupHandlers.  A handler that returns at once on a   *)
(* failed guard is not enabled.                                             *)
(***************************************************************************)
InRoom(s) == socket[s].conn = "up" /\ socket[s].room # 0

\* socket.on("toggle-ready") when Math.random takes its seed-th outcome
ToggleReadySeed(s, seed) ==
    /\ InRoom(s)
    /\ room[socket[s].room].status # "playing"
    /\ LET r == socket[s].room
           toggled == [player EXCEPT ![s].status =
                          IF player[s].status = "ready" THEN "not-ready" ELSE "ready"]
           res == tryStartRoom(room[r], toggled, seed)
       IN  /\ res.ok => rounds < MaxRounds
           /\ room' = [room EXCEPT ![r] = res.room]
           /\ player' = res.player
           /\ last' = Call("toggle-ready", s, res.ok)
           /\ hist' = IF res.ok
                      THEN [hist EXCEPT ![r] = NewRound(
                              [i \in 1..Len(res.room.players) |->
                                  player[res.room.players[i]].id])]
                      ELSE hist
           /\ rounds' = IF res.ok THEN rounds + 1 ELSE rounds
    /\ UNCHANGED <<rooms, socket, churn, applied, indexed>>

\* socket.on("toggle-ready")
ToggleReady(s) == \E seed \in Seeds : ToggleReadySeed(s, seed)

\* socket.on("become-landlord")
BecomeLandlord(s) ==
    /\ InRoom(s)
    /\ room[socket[s].room].status = "playing"
    /\ room[socket[s].room].game.phase = "bidding"
    /\ LET r == socket[s].room
           res == becomeLandlord(room[r].game, player, s)
       IN  /\ room' = [room EXCEPT ![r].game = res.game]
           /\ player' = res.player
           /\ last' = Call("become-landlord", s, res.ok)
           /\ hist' = [hist EXCEPT ![r].landlords = @ + (IF res.ok THEN 1 ELSE 0)]
    /\ UNCHANGED <<rooms, socket, rounds, churn, applied, indexed>>

\* socket.on("play-cards")
PlayCards(s, cards) ==
    /\ InRoom(s)
    /\ room[socket[s].room].status = "playing"
    /\ validatePlay(cards) # NoPlay
    /\ LET r == socket[s].room
           players == room[r].players
           res == playCards(room[r].game, player, s, cards, players)
           ended == endRoom([room[r] EXCEPT !.game = res.game], res.player)
       IN  /\ res.ok => hist[r].turns < MaxTurns
           /\ IF res.ok /\ Len(res.player[s].hand) = 0
              THEN room' = [room EXCEPT ![r] = ended.room] /\ player' = ended.player
              ELSE room' = [room EXCEPT ![r].game = res.game] /\ player' = res.player
           /\ last' = Call("play-cards", s, res.ok)
           /\ hist' = IF res.ok
                      THEN [hist EXCEPT ![r].turns = @ + 1,
                                        ![r].leader = player[s].id,
                                        ![r].beaten = room[r].game.lastPlay,
                                        ![r].passes = 0]
                      ELSE hist
    /\ UNCHANGED <<rooms, socket, rounds, churn, applied, indexed>>

\* socket.on("pass")
Pass(s) ==
    /\ InRoom(s)
    /\ room[socket[s].room].status = "playing"
    /\ LET r == socket[s].room
           res == pass(room[r].game, player, s, room[r].players)
       IN  /\ res.ok => hist[r].turns < MaxTurns
           /\ room' = [room EXCEPT ![r].game = res.game]
           /\ player' = res.player
           /\ last' = Call("pass", s, res.ok)
           /\ hist' = IF res.ok
                      THEN [hist EXCEPT ![r].turns = @ + 1, ![r].passes = @ + 1]
                      ELSE hist
    /\ UNCHANGED <<rooms, socket, rounds, churn, applied, indexed>>

(***************************************************************************)
(* Spec: one table.  Three clients have connected, the first created room 1 *)
(* and the others joined it; they toggle ready and play rounds.             *)
(***************************************************************************)
Seated == 1..SeatCount

\* three clients seated in room 1, nobody ready
InitTable ==
    /\ rooms = {1}
    /\ room = [r \in RoomIds |->
                 IF r = 1 THEN [NewRoom(1) EXCEPT !.players = [i \in Seated |-> i]]
                 ELSE NewRoom(0)]
    /\ socket = [s \in Sockets |->
                   IF s \in Seated THEN [conn |-> "up", room |-> 1]
                   ELSE [conn |-> "none", room |-> 0]]
    /\ player = [s \in Sockets |-> NewPlayer(s)]
    /\ last = NoCall
    /\ hist = [r \in RoomIds |-> NewRound(<<>>)]
    /\ rounds = 0
    /\ churn = 0
    /\ indexed = NewIndexed

Init ==
    /\ InitTable
    /\ applied = NoApplication

Next ==
    \/ \E s \in Sockets : ToggleReady(s)
    \/ \E s \in Sockets : BecomeLandlord(s)
    \/ \E s \in Sockets : \E cards \in InputCards(player[s].hand) : PlayCards(s, cards)
    \/ \E s \in Sockets : Pass(s)

Spec == Init /\ [][Next]_vars


(***************************************************************************)
(* SpecServer: the table of Spec with the rest of the server around it.     *)
(* Further clients connect; clients create and join rooms, leave and        *)
(* disconnect while the three seated clients toggle ready and play.         *)
(***************************************************************************)
\* io.on("connection") without a profile in the handshake: a new Player
\* with a fresh id.  Sockets are interchangeable, so they connect in order.
Connect(s) ==
    /\ socket[s].conn = "none"
    /\ \A t \in Sockets : t < s => socket[t].conn # "none"
    /\ socket' = [socket EXCEPT ![s] = [conn |-> "up", room |-> 0]]
    /\ player' = [player EXCEPT ![s] = NewPlayer(s)]
    /\ last' = Call("connection", s, TRUE)
    /\ UNCHANGED <<rooms, room, hist, rounds, churn, applied, indexed>>

\* room.players.get(id): the roster's Player object with that id, 0 if none
getPlayer(R, pl, id) ==
    IF \E i \in 1..Len(R.players) : pl[R.players[i]].id = id
    THEN R.players[findIndexById(pl, R.players, id) + 1]
    ELSE 0

\* room.players.delete(id)
removePlayer(R, pl, id) ==
    [R EXCEPT !.players = SelectSeq(R.players, LAMBDA o : pl[o].id # id)]

\* joinRoom(socket, io, code) once the room is found: the registry, Room
\* objects, sockets and Player objects afterwards
joinRoom(rm, sk, pl, s, r) ==
    LET playerInRoom == getPlayer(rm[r], pl, pl[s].id)
    IN  [room |-> IF playerInRoom # 0 THEN rm
                  ELSE [rm EXCEPT ![r].players = Append(rm[r].players, s)],
         socket |-> [sk EXCEPT ![s].room = r],
         player |-> IF playerInRoom # 0
                    THEN [pl EXCEPT ![playerInRoom].status = "not-ready"]
                    ELSE [pl EXCEPT ![s].status = "not-ready"]]

\* socket.on("create-room"): createRoom() then joinRoom
CreateRoom(s) ==
    /\ socket[s].conn = "up"
    /\ Cardinality(rooms) < RoomLimit
    /\ \E r \in RoomIds :
          /\ room[r].code = 0
          /\ \A q \in RoomIds : q < r => room[q].code # 0
          /\ LET joined == joinRoom([room EXCEPT ![r] = NewRoom(r)], socket, player, s, r)
             IN  /\ rooms' = rooms \cup {r}
                 /\ room' = joined.room
                 /\ socket' = joined.socket
                 /\ player' = joined.player
    /\ churn < MaxChurn
    /\ churn' = churn + 1
    /\ last' = Call("create-room", s, TRUE)
    /\ UNCHANGED <<hist, rounds, applied, indexed>>

\* socket.on("join-room") with the code of a room of the registry
JoinRoom(s, r) ==
    /\ socket[s].conn = "up"
    /\ r \in rooms
    /\ LET joined == joinRoom(room, socket, player, s, r)
       IN  /\ room' = joined.room
           /\ socket' = joined.socket
           /\ player' = joined.player
    /\ churn < MaxChurn
    /\ churn' = churn + 1
    /\ last' = Call("join-room", s, TRUE)
    /\ UNCHANGED <<rooms, hist, rounds, applied, indexed>>

\* mutant of handlePlayerLeave: the player is taken off the roster whatever
\* the status of the room
handlePlayerLeave_AlwaysRemoves(rg, rm, pl, s, r) ==
    LET rm1 == [rm EXCEPT ![r] = removePlayer(rm[r], pl, pl[s].id)]
    IN  [rooms |-> IF allPlayersDisconnected(rm1[r], pl) THEN rg \ {r} ELSE rg,
         room |-> rm1,
         player |-> pl]

\* handlePlayerLeave(socket) with socket.room defined, including
\* handleLobbyPlayerLeave, handleGamePlayerDisconnect, shouldDeleteRoom
handlePlayerLeave(rg, rm, pl, s, r) ==
    LET inGame == getPlayer(rm[r], pl, pl[s].id)
        rm1 == IF rm[r].status = "lobby"
               THEN [rm EXCEPT ![r] = removePlayer(rm[r], pl, pl[s].id)]
               ELSE rm
        pl1 == IF rm[r].status # "lobby" /\ inGame # 0
               THEN [pl EXCEPT ![inGame].status = "disconnected"]
               ELSE pl
    IN  [rooms |-> IF allPlayersDisconnected(rm1[r], pl1) THEN rg \ {r} ELSE rg,
         room |-> rm1,
         player |-> pl1]

\* socket.on("leave-room")
LeaveRoom(s) ==
    /\ InRoom(s)
    /\ LET left == handlePlayerLeave(rooms, room, player, s, socket[s].room)
       IN  /\ rooms' = left.rooms
           /\ room' = left.room
           /\ player' = left.player
    /\ churn < MaxChurn
    /\ churn' = churn + 1
    /\ last' = Call("leave-room", s, TRUE)
    /\ UNCHANGED <<socket, hist, rounds, applied, indexed>>

\* socket.on("disconnect")
Disconnect(s) ==
    /\ socket[s].conn = "up"
    /\ LET left == IF socket[s].room # 0
                   THEN handlePlayerLeave(rooms, room, player, s, socket[s].room)
                   ELSE [rooms |-> rooms, room |-> room, player |-> player]
       IN  /\ rooms' = left.rooms
           /\ room' = left.room
           /\ player' = left.player
    /\ socket' = [socket EXCEPT ![s].conn = "down"]
    /\ churn < MaxChurn
    /\ churn' = churn + 1
    /\ last' = Call("disconnect", s, TRUE)
    /\ UNCHANGED <<hist, rounds, applied, indexed>>

\* The server is explored from the table of Init: three clients seated in
\* room 1 (connection three times, create-room, join-room twice).  Engine
\* calls that are rejected change nothing but `last`; they, the other
\* outcomes of the shuffle, the plays of more than the lowest card of a hand
\* and the play after the first accepted play of a round (passes included)
\* are left to Spec.
NextServer ==
    \/ \E s \in Sockets : Connect(s)
    \/ \E s \in Sockets : CreateRoom(s)
    \/ \E s \in Sockets : \E r \in RoomIds : JoinRoom(s, r)
    \/ \E s \in Sockets : LeaveRoom(s)
    \/ \E s \in Sockets : Disconnect(s)
    \/ \E s \in Sockets : ToggleReadySeed(s, 0)
    \/ \E s \in Sockets : BecomeLandlord(s)
    \/ \E s \in Sockets :
          /\ Len(player[s].hand) > 0
          /\ PlayCards(s, SubSeq(player[s].hand, 1, 1))
          /\ last'.ok
          /\ hist[socket[s].room].turns < MaxServerTurns

SpecServer == Init /\ [][NextServer]_vars


(***************************************************************************)
(* SpecLobby: one room in its lobby.  The room holds any number of clients, *)
(* each READY or NOT_READY (create-room, join-room and toggle-ready events  *)
(* have led there); they toggle ready until tryStartRoom starts the round,  *)
(* under each enumerated outcome of the shuffle.                            *)
(***************************************************************************)
InitLobby ==
    \E n \in 1..MaxSockets :
    \E status \in [1..n -> {"ready", "not-ready"}] :
        /\ rooms = {1}
        /\ room = [r \in RoomIds |->
                     IF r = 1 THEN [NewRoom(1) EXCEPT !.players = [i \in 1..n |-> i]]
                     ELSE NewRoom(0)]
        /\ socket = [s \in Sockets |->
                       IF s <= n THEN [conn |-> "up", room |-> 1]
                       ELSE [conn |-> "none", room |-> 0]]
        /\ player = [s \in Sockets |->
                       IF s <= n THEN [NewPlayer(s) EXCEPT !.status = status[s]]
                       ELSE NewPlayer(s)]
        /\ last = NoCall
        /\ hist = [r \in RoomIds |-> NewRound(<<>>)]
        /\ rounds = 0
        /\ churn = 0
        /\ applied = NoApplication
        /\ indexed = NewIndexed

NextLobby == \E s \in Sockets : \E seed \in ShuffleSeeds : ToggleReadySeed(s, seed)

SpecLobby == InitLobby /\ [][NextLobby]_vars

(***************************************************************************)
(* SpecFinish: the table of Spec played to the end of its rounds while its  *)
(* clients leave, disconnect and join again.  The only submission is the    *)
(* sender's whole hand, and only accepted plays are explored.               *)
(***************************************************************************)
NextFinish ==
    \/ \E s \in Sockets : ToggleReady(s)
    \/ \E s \in Sockets : BecomeLandlord(s)
    \/ \E s \in Sockets : PlayCards(s, player[s].hand) /\ last'.ok
    \/ \E s \in Sockets : LeaveRoom(s)
    \/ \E s \in Sockets : Disconnect(s)
    \/ \E s \in Sockets : \E r \in RoomIds : JoinRoom(s, r)

SpecFinish == Init /\ [][NextFinish]_vars


(***************************************************************************)
(* State messages: what Game.serialize, Player.serialize and Room.serialize *)
(* put on the wire (name, score and chat left out), and the state message   *)
(* the handler that ran last sent to a client.                              *)
(***************************************************************************)
\* the face-down placeholder { type: "Flipped" }
Flipped == 0

\* player.serialize(hidden)
serializePlayer(p, hidden) ==
    [id |-> p.id, status |-> p.status,
     hand |-> IF hidden THEN [i \in 1..Len(p.hand) |-> Flipped] ELSE p.hand]

\* game.serialize()
serializeGame(g) ==
    [deck |-> g.deck, landlordCards |-> g.landlordCards,
     currentPlayerId |-> g.currentPlayerId, landlordId |-> g.landlordId,
     lastPlay |-> g.lastPlay, phase |-> g.phase, passCount |-> g.passCount]

\* room.serialize(): every player through player.serialize(), in roster order
serializeRoom(R, pl) ==
    [code |-> R.code, status |-> R.status, game |-> serializeGame(R.game),
     players |-> [i \in 1..Len(R.players) |-> serializePlayer(pl[R.players[i]], FALSE)]]

NoMessage == [event |-> "none"]

\* the "started-room" or "joined-room" message that the handler that ran
\* last sent to the client of socket s (NoMessage: none): "started-room" goes
\* to the room of the sender when tryStartRoom returned true, "joined-room"
\* to the socket that joined
Received(s) ==
    IF /\ last.op = "toggle-ready" /\ last.ok
       /\ socket[s].conn = "up" /\ socket[s].room = socket[last.who].room
       /\ s \in {room[socket[s].room].players[i] :
                    i \in 1..Len(room[socket[s].room].players)}
    THEN [event |-> "started-room", game |-> serializeGame(room[socket[s].room].game),
          players |-> <<>>]
    ELSE IF last.op \in {"join-room", "create-room"} /\ last.who = s
    THEN LET data == serializeRoom(room[socket[s].room], player)
         IN  [event |-> "joined-room", game |-> data.game, players |-> data.players]
    ELSE NoMessage

(***************************************************************************)
(* Properties of the id-keyed Game.                                         *)
(***************************************************************************)
Range(seq) == {seq[i] : i \in 1..Len(seq)}
Count(seq, c) == Cardinality({i \in 1..Len(seq) : seq[i] = c})

\* after is before with exactly the cards of taken removed (as multisets)
IsHandMinus(before, taken, after) ==
    \A c \in Cards : Count(before, c) = Count(after, c) + Count(taken, c)

\* the rooms whose game the last handler addressed
RoomOf(s) == socket[s].room

\* C1: a playCards or pass call that returns false -- wrong phase, caller not
\* currentPlayerId, cards that do not classify, play that cannot beat
\* lastPlay -- leaves the game (phase, currentPlayerId, landlordId, lastPlay,
\* passCount, landlordCards) and every player's hand unchanged: in every
\* reachable state for every caller and submission, and on every handler
\* step whose engine call was rejected.
C1_RejectedCallInert ==
    \A r \in rooms : \A s \in Sockets :
        /\ \A cards \in InputCards(player[s].hand) :
              LET res == playCards(room[r].game, player, s, cards, room[r].players)
              IN  ~res.ok => res.game = room[r].game /\ res.player = player
        /\ LET res == pass(room[r].game, player, s, room[r].players)
           IN  ~res.ok => res.game = room[r].game /\ res.player = player

C1_RejectedStepInert ==
    (last'.op \in {"play-cards", "pass"} /\ ~last'.ok)
        => (room' = room /\ player' = player)

C1_RejectedCallChangesNothing ==
    [] C1_RejectedCallInert /\ [][C1_RejectedStepInert]_vars

\* a play-cards of the current player in PLAYING was rejected: it classified
\* (the handler checked) but could not beat lastPlay
C1_Witness ==
    /\ last.op = "play-cards" /\ ~last.ok
    /\ RoomOf(last.who) # 0
    /\ LET g == room[RoomOf(last.who)].game
       IN  /\ g.phase = "playing"
           /\ g.currentPlayerId = player[last.who].id
           /\ g.lastPlay # NoPlay

\* C2: an accepted playCards was given only cards of the player's hand, and
\* the hand afterwards is the prior hand minus exactly those cards.
C2_AcceptedPlayRemovesSubmittedCards ==
    \A r \in rooms : \A s \in Sockets : \A cards \in InputCards(player[s].hand) :
        LET res == playCards(room[r].game, player, s, cards, room[r].players)
        IN  res.ok =>
               /\ Range(cards) \subseteq Range(player[s].hand)
               /\ IsHandMinus(player[s].hand, cards, res.player[s].hand)
               /\ Len(res.player[s].hand) = Len(player[s].hand) - Len(cards)

\* C3: an accepted playCards that replaces a defined lastPlay L by P has
\* canBeat(P, L); on a fresh trick (lastPlay undefined) every submission of
\* the current player in PLAYING that classifies is accepted.
C3_FreshTrickAcceptsAll ==
    \A r \in rooms : \A s \in Sockets : \A cards \in InputCards(player[s].hand) :
        LET g == room[r].game
        IN  (/\ g.phase = "playing"
             /\ g.currentPlayerId = player[s].id
             /\ g.lastPlay = NoPlay
             /\ validatePlay(cards) # NoPlay)
            => playCards(g, player, s, cards, room[r].players).ok

C3_AcceptedStepBeats ==
    \A r \in rooms :
        (/\ last'.op = "play-cards" /\ last'.ok /\ RoomOf(last'.who) = r
         /\ room[r].game.lastPlay # NoPlay)
        => canBeat(room'[r].game.lastPlay, room[r].game.lastPlay)

C3_AcceptedPlayBeatsLastPlay ==
    [] C3_FreshTrickAcceptsAll /\ [][C3_AcceptedStepBeats]_vars

\* an accepted play has just replaced a defined lastPlay
C3_Witness ==
    /\ last.op = "play-cards" /\ last.ok
    /\ RoomOf(last.who) # 0
    /\ hist[RoomOf(last.who)].beaten # NoPlay
    /\ room[RoomOf(last.who)].game.lastPlay.type # "rocket"


\* the ids of the roster of Room object R, in seating order
RosterIds(R) == [i \in 1..Len(R.players) |-> player[R.players[i]].id]

\* id follows seat i of the sequence ids circularly
SuccessorIn(ids, i) == ids[(i % Len(ids)) + 1]

\* C4: with three seated players, once a play by X was accepted and the next
\* two players have each passed in turn, lastPlay is undefined, passCount is
\* 0 and currentPlayerId is X again.
C4_TwoPassesReturnLead ==
    \A r \in rooms :
        (/\ Len(room[r].players) = 3
         /\ last.op = "pass" /\ last.ok /\ RoomOf(last.who) = r
         /\ hist[r].leader \in Range(RosterIds(room[r]))
         /\ hist[r].passes = 2)
        => /\ room[r].game.lastPlay = NoPlay
           /\ room[r].game.passCount = 0
           /\ room[r].game.currentPlayerId = hist[r].leader

\* the second pass in a row after a play has just been accepted
C4_Witness ==
    \E r \in rooms :
        /\ Len(room[r].players) = 3
        /\ last.op = "pass" /\ last.ok /\ RoomOf(last.who) = r
        /\ hist[r].leader \in Range(RosterIds(room[r]))
        /\ hist[r].passes = 2
        /\ room[r].game.phase = "playing"

\* C5: pass returns false and changes nothing whenever lastPlay is
\* undefined; no pass is accepted on a fresh trick.
C5_PassInertOnFreshTrick ==
    \A r \in rooms : \A s \in Sockets :
        room[r].game.lastPlay = NoPlay
            => pass(room[r].game, player, s, room[r].players)
                  = Result(FALSE, room[r].game, player)

C5_AcceptedPassHadLastPlay ==
    \A r \in rooms :
        (last'.op = "pass" /\ RoomOf(last'.who) = r /\ room[r].game.lastPlay = NoPlay)
            => (~last'.ok /\ room' = room /\ player' = player)

C5_LeaderCannotPass ==
    [] C5_PassInertOnFreshTrick /\ [][C5_AcceptedPassHadLastPlay]_vars

\* the current player tried to pass on a fresh trick and was rejected
C5_Witness ==
    /\ last.op = "pass" /\ ~last.ok
    /\ RoomOf(last.who) # 0
    /\ LET g == room[RoomOf(last.who)].game
       IN  /\ g.phase = "playing"
           /\ g.currentPlayerId = player[last.who].id
           /\ g.lastPlay = NoPlay

\* C6: an accepted playCards sets phase FINISHED exactly when it leaves the
\* acting player's hand empty, and then currentPlayerId stays on the winner;
\* otherwise phase stays PLAYING and currentPlayerId moves to the next seat
\* circularly.
C6_AcceptedStep ==
    \A r \in rooms :
        (last'.op = "play-cards" /\ last'.ok /\ RoomOf(last'.who) = r)
        => LET s == last'.who
               g == room[r].game
               after == room'[r].game
               ids == RosterIds(room[r])
               emptied == Range(player[s].hand) \subseteq Range(after.lastPlay.cards)
           IN  /\ after.phase = "finished" <=> emptied
               /\ emptied => after.currentPlayerId = player[s].id
               /\ ~emptied =>
                     /\ after.phase = "playing"
                     /\ \A i \in 1..Len(ids) :
                           ids[i] = player[s].id
                              => after.currentPlayerId = SuccessorIn(ids, i)

C6_FinishIffHandEmpty == [][C6_AcceptedStep]_vars

\* an accepted play has just emptied the hand of the player who made it
C6_Witness ==
    /\ last.op = "play-cards" /\ last.ok
    /\ RoomOf(last.who) # 0
    /\ room[RoomOf(last.who)].game.phase = "finished"
    /\ room[RoomOf(last.who)].game.currentPlayerId = player[last.who].id

\* C7: every turn advance (accepted play that does not end the round, or
\* accepted pass) moves currentPlayerId to its successor, modulo 3, in the
\* seating order of the three players handed to startGame, whatever
\* join-room, leave-room or disconnect was handled during the round.
C7_AdvanceStep ==
    \A r \in rooms :
        (/\ last'.op \in {"play-cards", "pass"} /\ last'.ok /\ RoomOf(last'.who) = r
         /\ room'[r].game.phase = "playing")
        => \E i \in 1..Len(hist[r].seating) :
              /\ hist[r].seating[i] = room[r].game.currentPlayerId
              /\ room'[r].game.currentPlayerId = SuccessorIn(hist[r].seating, i)

C7_TurnFollowsStartSeating == [][C7_AdvanceStep]_vars

\* C8: becomeLandlord, playCards and pass invoked by a player who is not
\* currentPlayerId are rejected with no state change.
C8_NonCurrentStep ==
    \A r \in rooms :
        (/\ last'.op \in {"become-landlord", "play-cards", "pass"}
         /\ RoomOf(last'.who) = r
         /\ player[last'.who].id # room[r].game.currentPlayerId)
        => (~last'.ok /\ room' = room /\ player' = player)

C8_NonCurrentCallerRejected == [][C8_NonCurrentStep]_vars

\* C9: becomeLandlord(player) in BIDDING adds landlordCards to that player's
\* hand, sets phase PLAYING, landlordId and currentPlayerId to that player
\* and leaves lastPlay undefined and passCount 0; in any other phase it
\* changes nothing; at most one landlord is designated per round.
C9_BecomeLandlordStep ==
    \A r \in rooms :
        (last'.op = "become-landlord" /\ RoomOf(last'.who) = r)
        => LET s == last'.who
               g == room[r].game
               after == room'[r].game
           IN  /\ g.phase = "bidding" /\ last'.ok
               /\ after.phase = "playing"
               /\ after.landlordId = player[s].id
               /\ after.currentPlayerId = player[s].id
               /\ after.lastPlay = NoPlay
               /\ after.passCount = 0
               /\ IsHandMinus(player'[s].hand, g.landlordCards, player[s].hand)
               /\ \A o \in Sockets \ {s} : player'[o] = player[o]

C9_InertOutsideBidding ==
    \A r \in rooms : \A s \in Sockets :
        room[r].game.phase # "bidding"
            => becomeLandlord(room[r].game, player, s)
                  = Result(FALSE, room[r].game, player)

C9_BecomeLandlordOnlyInBidding ==
    /\ [] C9_InertOutsideBidding
    /\ [] (\A r \in rooms : hist[r].landlords <= 1)
    /\ [][C9_BecomeLandlordStep]_vars
    /\ [][\A r \in rooms :
            room'[r].game.landlordId # room[r].game.landlordId
               => last'.op = "become-landlord" /\ hist[r].landlords = 0]_vars

\* becomeLandlord has just been accepted
C9_Witness ==
    /\ last.op = "become-landlord" /\ last.ok
    /\ RoomOf(last.who) # 0
    /\ hist[RoomOf(last.who)].landlords = 1
    /\ room[RoomOf(last.who)].game.phase = "playing"

\* C10: immediately after becomeLandlord is accepted in a round started by
\* startGame, the landlord holds 20 cards and each of the other two dealt
\* players holds 17.
C10_LandlordHolds20 ==
    \A r \in rooms :
        (last.op = "become-landlord" /\ last.ok /\ RoomOf(last.who) = r)
        => LET landlord == room[r].game.landlordId
               dealt == {o \in Sockets : player[o].id \in Range(hist[r].seating)}
           IN  /\ landlord = player[last.who].id
               /\ Len(player[last.who].hand) = 20
               /\ Cardinality({o \in dealt : player[o].id # landlord}) = 2
               /\ \A o \in dealt :
                     player[o].id # landlord => Len(player[o].hand) = 17


(***************************************************************************)
(* Properties of the deck and of the deal.                                  *)
(***************************************************************************)
RECURSIVE HandTotalFrom(_, _)
HandTotalFrom(R, i) ==
    IF i > Len(R.players) THEN 0
    ELSE Len(player[R.players[i]].hand) + HandTotalFrom(R, i + 1)

\* the sum of the hand sizes of the players in the roster of R
HandTotal(R) == HandTotalFrom(R, 1)

\* the Player objects handed to the startGame of the current round of room r
Dealt(r) == {o \in Sockets : player[o].id \in Range(hist[r].seating)}

\* the round of room r has been dealt and is in phase BIDDING
InBidding(r) == room[r].status = "playing" /\ room[r].game.phase = "bidding"

\* tryStartRoom has just started a round of room r
JustStarted(r) == last.op = "toggle-ready" /\ last.ok /\ RoomOf(last.who) = r

\* C11: in every reachable state with phase PLAYING, landlordCards is empty.
C11_LandlordCardsEmptyInPlaying ==
    \A r \in rooms :
        room[r].game.phase = "playing" => room[r].game.landlordCards = <<>>

IsPermutation(deck) == Len(deck) = Cardinality(Cards) /\ Range(deck) = Cards

\* the fixed 54-card set: 52 distinct suit/rank cards and the two jokers
C13_FixedDeck ==
    LET revealed == {c \in Range(initializeDeck) : CardState(c) = "Revealed"}
        jokers == {c \in Range(initializeDeck) : CardState(c) = "Joker"}
    IN  /\ IsPermutation(initializeDeck)
        /\ {<<CardSuit(c), CardRank(c)>> : c \in revealed} = Range(suits) \X Range(ranks)
        /\ Cardinality(revealed) = 52
        /\ {CardColor(c) : c \in jokers} = {"BLACK", "RED"}
        /\ Cardinality(jokers) = 2

\* C13: for every outcome of the random choices of shuffleDeck, the deck
\* after initializeDeck and shuffleDeck is a permutation of the fixed
\* 54-card set (52 distinct suit/rank cards and the two jokers), without
\* duplicates or omissions: the deck of every started round is one, and
\* from it every single choice index_ in 0..index of a shuffle step yields
\* one again.
C13_ShuffleIsPermutation ==
    /\ C13_FixedDeck
    /\ \A r \in rooms :
          room[r].game.deck # <<>> => IsPermutation(room[r].game.deck)
    /\ \A r \in rooms :
          JustStarted(r)
          => \A index \in 1..(Len(room[r].game.deck) - 1) : \A index_ \in 0..index :
                IsPermutation(swap(room[r].game.deck, index + 1, index_ + 1))

\* a round has just started on a deck that the shuffle reordered
C13_Witness ==
    \E r \in rooms :
        /\ JustStarted(r)
        /\ room[r].game.deck # initializeDeck
        /\ room[r].game.deck[1] # initializeDeck[1]


(***************************************************************************)
(* Properties of the Room and of the server.                                *)
(***************************************************************************)
\* C14: in every reachable state of a round in phase BIDDING or PLAYING,
\* currentPlayerId is defined and is the id of a player currently in the
\* room roster.
C14_CurrentPlayerSeated ==
    \A r \in rooms :
        (room[r].status = "playing" /\ room[r].game.phase \in {"bidding", "playing"})
        => /\ room[r].game.currentPlayerId # 0
           /\ room[r].game.currentPlayerId \in Range(RosterIds(room[r]))

\* the toggle-ready handler calls tryStartRoom on the room of the sender
\* with the sender's status flipped: the call returns true exactly when (the
\* status is LOBBY and) 3 players are seated and all are READY, and then the
\* status is PLAYING and the round is dealt; otherwise nothing but the
\* sender's status has changed
C15_TryStartStep ==
    last'.op = "toggle-ready"
    => LET s == last'.who
           r == socket[s].room
           toggled == [player EXCEPT ![s].status =
                          IF player[s].status = "ready" THEN "not-ready" ELSE "ready"]
           roster == Range(room[r].players)
           startable == /\ room[r].status = "lobby"
                        /\ Len(room[r].players) = 3
                        /\ \A o \in roster : toggled[o].status = "ready"
       IN  /\ last'.ok <=> startable
           /\ last'.ok
              => /\ room'[r].status = "playing"
                 /\ room'[r].players = room[r].players
                 /\ room'[r].game.phase = "bidding"
                 /\ IsPermutation(room'[r].game.deck)
                 /\ Len(room'[r].game.landlordCards) = 3
                 /\ \A o \in roster : Len(player'[o].hand) = 17
                 /\ \A o \in Sockets : player'[o].status = toggled[o].status
           /\ ~last'.ok => (room' = room /\ player' = toggled)

\* called on a room whose status is not LOBBY, tryStartRoom returns false
\* and changes nothing, whatever the statuses of the players
C15_NoStartOutsideLobby ==
    \A r \in rooms : \A seed \in Seeds :
        room[r].status # "lobby"
            => tryStartRoom(room[r], player, seed) = RoomResult(FALSE, room[r], player)

\* every round was started with exactly 3 seated players
C15_StartedWithThree ==
    \A r \in rooms : room[r].status = "playing" => Len(hist[r].seating) = 3

EndRoomDone(R, pl, after, plAfter) ==
    /\ after.status = "lobby"
    /\ after.players = SelectSeq(R.players, LAMBDA o : pl[o].status # "disconnected")
    /\ \A o \in Range(after.players) :
          plAfter[o].status = "not-ready" /\ plAfter[o].hand = <<>>

\* endRoom on the room of any reachable state
C16_EndRoomResult ==
    \A r \in rooms :
        LET res == endRoom(room[r], player)
        IN  EndRoomDone(room[r], player, res.room, res.player)

\* the step of the play-cards handler that calls endRoom (the only step
\* that takes a room back to LOBBY)
C16_EndRoomStep ==
    \A r \in rooms :
        (room[r].status = "playing" /\ room'[r].status = "lobby")
        => /\ last'.op = "play-cards" /\ last'.ok
           /\ EndRoomDone(room[r], player, room'[r], player')

\* C16: after endRoom, status is LOBBY, every player that was DISCONNECTED
\* has been removed from the roster, and every remaining player is
\* NOT_READY with an empty hand.
C16_EndRoomResetsRoom ==
    /\ [] C16_EndRoomResult
    /\ [][C16_EndRoomStep]_vars

\* a winning play has just ended a round that a player had left: endRoom
\* removed that player and reset the others
C16_Witness ==
    \E r \in rooms :
        /\ last.op = "play-cards" /\ last.ok /\ RoomOf(last.who) = r
        /\ room[r].status = "lobby"
        /\ Len(hist[r].seating) = 3
        /\ Len(room[r].players) \in {1, 2}


\* C17: abandoned rooms are always garbage-collected: after any handler
\* completes, every room in the registry has at least one seated player whose
\* socket is still connected and attached to that room.
C17_NoAbandonedRoom ==
    \A r \in rooms :
        \E o \in Range(room[r].players) :
            socket[o].conn = "up" /\ socket[o].room = r


\* C18: every game or room state message the server sends to a client
\* contains that client's own hand in full and every other player's hand
\* only as a same-length sequence of face-down placeholders, and no card of
\* the deck face up, so that what the client receives does not depend on the
\* cards the other players or the deck hold.
C18_ClientSeesOnlyOwnHand ==
    \A s \in Sockets :
        LET m == Received(s)
            roster == room[socket[s].room].players
        IN  m.event # "none"
            => /\ Len(m.players) = Len(roster)
               /\ \A i \in 1..Len(m.players) :
                     /\ m.players[i].id = player[roster[i]].id
                     /\ Len(m.players[i].hand) = Len(player[roster[i]].hand)
                     /\ IF roster[i] = s
                        THEN m.players[i].hand = player[s].hand
                        ELSE \A k \in 1..Len(m.players[i].hand) :
                                m.players[i].hand[k] = Flipped
               /\ \A k \in 1..Len(m.game.deck) : m.game.deck[k] = Flipped


\* one step of the handlers seen from room r: the phase moves along one of
\* the three edges, by the handler of that edge; a round starts only from
\* the LOBBY, after the previous round FINISHED (or before any round), and
\* starts in BIDDING; cards are dealt only by that start
C19_PhaseStep ==
    \A r \in rooms :
        LET g == room[r].game
            after == room'[r].game
            starts == last'.op = "toggle-ready" /\ last'.ok /\ RoomOf(last'.who) = r
        IN  /\ after.phase # g.phase
               => \/ /\ g.phase = "bidding" /\ after.phase = "playing"
                     /\ last'.op = "become-landlord" /\ last'.ok
                  \/ /\ g.phase = "playing" /\ after.phase = "finished"
                     /\ last'.op = "play-cards" /\ last'.ok
                     /\ room'[r].status = "lobby"
                  \/ /\ g.phase = "finished" /\ after.phase = "bidding"
                     /\ starts
            /\ starts
               => /\ room[r].status = "lobby"
                  /\ g.phase = "finished" \/ hist[r].seating = <<>>
                  /\ after.phase = "bidding"
            /\ (after.deck # g.deck \/ after.landlordCards # g.landlordCards) => starts
            /\ (room[r].status = "playing" /\ g.phase # "finished")
               => hist'[r].seating = hist[r].seating

\* C19: under the server handlers, the game phase changes only
\* BIDDING->PLAYING (become-landlord), PLAYING->FINISHED (a hand-emptying
\* play) and FINISHED->BIDDING (the next successful tryStartRoom); no round
\* is restarted or re-dealt while its phase is BIDDING or PLAYING.
C19_PhaseFollowsRoundCycle == [][C19_PhaseStep]_vars

\* the second round of a room has just started: all three edges were taken
C19_Witness ==
    \E r \in rooms :
        /\ rounds = 2
        /\ JustStarted(r)
        /\ InBidding(r)

\* C20: at every state in phase BIDDING that follows a startGame, the
\* second and later rounds of a room included, no landlord is designated
\* (landlordId is unset), lastPlay is undefined and passCount is 0.
C20_BiddingStartsClean ==
    \A r \in rooms :
        InBidding(r)
        => /\ room[r].game.landlordId = 0
           /\ room[r].game.lastPlay = NoPlay
           /\ room[r].game.passCount = 0

\* passCount stays within 0..2 and counts passes against a defined lastPlay
C21_PassCountInRange ==
    \A r \in rooms :
        /\ room[r].game.passCount \in {0, 1, 2}
        /\ room[r].game.passCount > 0 => room[r].game.lastPlay # NoPlay

\* an accepted play-cards leaves passCount at 0
C21_AcceptedPlayResets ==
    \A r \in rooms :
        (last'.op = "play-cards" /\ last'.ok /\ RoomOf(last'.who) = r)
            => room'[r].game.passCount = 0

\* C21: in every reachable state passCount is in {0,1,2}; it is 0
\* immediately after every accepted non-pass play; and passCount > 0 implies
\* lastPlay is defined.
C21_PassCountTracksPasses ==
    [] C21_PassCountInRange /\ [][C21_AcceptedPlayResets]_vars

\* one player has passed on a play that still stands
C21_Witness ==
    \E r \in rooms :
        /\ last.op = "pass" /\ last.ok /\ RoomOf(last.who) = r
        /\ room[r].game.passCount = 1
        /\ room[r].game.lastPlay # NoPlay

\* C22: after any server handler completes, game.phase = FINISHED implies
\* room.status = LOBBY with every seated player's hand empty, and
\* room.status = PLAYING implies game.phase is BIDDING or PLAYING.
C22_FinishedRoomIsClearedLobby ==
    \A r \in rooms :
        /\ room[r].game.phase = "finished"
           => /\ room[r].status = "lobby"
              /\ \A o \in Range(room[r].players) : player[o].hand = <<>>
        /\ room[r].status = "playing"
           => room[r].game.phase \in {"bidding", "playing"}

\* socket s is attached to a PLAYING room and its player is on the roster
SeatedInPlay(s) ==
    /\ socket[s].room # 0
    /\ room[socket[s].room].status = "playing"
    /\ getPlayer(room[socket[s].room], player, player[s].id) # 0

\* what a leave of seated socket s from PLAYING room r gives: the Room object
\* (roster, status and every field of the game) is as it was, the Player
\* objects differ in the status of s only, and the registry loses the room
\* only when nobody is left connected
LeftInPlay(s, r, rg, rm, pl) ==
    /\ rm[r] = room[r]
    /\ pl = [player EXCEPT ![s].status = "disconnected"]
    /\ rg \in {rooms, rooms \ {r}}
    /\ rg = rooms \/ \A o \in Range(room[r].players) : pl[o].status = "disconnected"

\* handlePlayerLeave on every seated socket of a PLAYING room
C23_LeaveResult ==
    \A s \in Sockets :
        SeatedInPlay(s)
        => LET left == handlePlayerLeave(rooms, room, player, s, socket[s].room)
           IN  LeftInPlay(s, socket[s].room, left.rooms, left.room, left.player)

\* the step of the leave-room and disconnect handlers
C23_LeaveStep ==
    \A s \in Sockets :
        (last'.op \in {"leave-room", "disconnect"} /\ last'.who = s /\ SeatedInPlay(s))
        => LeftInPlay(s, socket[s].room, rooms', room', player')

\* C23: a leave-room or disconnect of a seated player while the room is
\* PLAYING changes only that player's status (to DISCONNECTED): the player
\* stays in the roster, and phase, currentPlayerId, landlordId, lastPlay,
\* passCount and all hands are unchanged, so the turn is neither skipped nor
\* advanced.
C23_LeaveInPlayOnlyMarksDisconnected ==
    [] C23_LeaveResult /\ [][C23_LeaveStep]_vars

\* the player whose turn it is has just left a round in play: it is still
\* seated, DISCONNECTED, and the turn is still its own
C23_Witness ==
    \E s \in Sockets :
        /\ last.op \in {"leave-room", "disconnect"} /\ last.who = s
        /\ SeatedInPlay(s)
        /\ player[s].status = "disconnected"
        /\ room[socket[s].room].game.phase = "playing"
        /\ room[socket[s].room].game.currentPlayerId = player[s].id
        /\ Len(player[s].hand) > 0

(***************************************************************************)
(* SpecClassify: Game.validatePlay called on its own, as the play-cards      *)
(* handler calls it on whatever array a client sends (handlers.ts:80).      *)
(* An array is drawn by the ranks of its cards: key k <= 13 is ranks[k],    *)
(* keys 14 and 15 are the black and the red joker; the i-th card of a rank  *)
(* takes the i-th suit.  Drawn are every selection of at most MaxGiven      *)
(* cards of the deck, highest first, and every run of consecutive ranks     *)
(* (groups of 1 to 4 cards of a rank, at most MaxRunCards cards) followed   *)
(* by at most MaxAttached further cards.                                    *)
(***************************************************************************)
MaxGiven == 5
MaxRunCards == 8
MaxAttached == 2
MaxPermuted == 3

RankKeys == 1..(Len(ranks) + 2)

KeyCard(keys, i) ==
    IF keys[i] = Len(ranks) + 1 THEN BlackJoker
    ELSE IF keys[i] = Len(ranks) + 2 THEN RedJoker
    ELSE Revealed(Cardinality({j \in 1..i : keys[j] = keys[i]}), keys[i])

CardsOf(keys) == [i \in 1..Len(keys) |-> KeyCard(keys, i)]

\* the keys name distinct cards of the 54-card deck
InDeck(keys) ==
    \A k \in Range(keys) :
        Count(keys, k) <= (IF k > Len(ranks) THEN 1 ELSE Len(suits))

Reverse(seq) == [i \in 1..Len(seq) |-> seq[Len(seq) + 1 - i]]

\* the ascending sequences of exactly n keys that name cards of the deck
RECURSIVE Ascending(_)
Ascending(n) ==
    IF n = 0 THEN {<<>>}
    ELSE {t \in {Append(s, k) : s \in Ascending(n - 1), k \in RankKeys} :
             (n > 1 => t[n] >= t[n - 1]) /\ InDeck(t)}

\* groups consecutive ranks from key a on, size cards of each
Run(a, groups, size) == [i \in 1..(groups * size) |-> a + ((i - 1) \div size)]

Given(keys) == applied = [NoApplication EXCEPT !.cards = CardsOf(keys)]

InitClassify ==
    /\ InitTable
    /\ \/ \E n \in 0..MaxGiven : \E s \in Ascending(n) : Given(Reverse(s))
       \/ \E a \in 1..Len(ranks) : \E size \in 1..Len(suits) :
          \E groups \in 1..(MaxRunCards \div size) :
          \E n \in 0..MaxAttached : \E extra \in Ascending(n) :
             /\ a + groups - 1 <= Len(ranks)
             /\ InDeck(Run(a, groups, size) \o extra)
             /\ Given(Run(a, groups, size) \o extra)

\* Game.validatePlay(cards)
ValidatePlay ==
    /\ applied.fn = "none"
    /\ applied' = [applied EXCEPT !.fn = "validatePlay",
                                 !.play = validatePlay(applied.cards)]
    /\ UNCHANGED <<rooms, room, socket, player, last, hist, rounds, churn, indexed>>

\* the client sends the same cards with two neighbours exchanged
Resend(i) ==
    /\ applied.fn = "validatePlay"
    /\ Len(applied.cards) <= MaxPermuted
    /\ i < Len(applied.cards)
    /\ LET cards == swap(applied.cards, i, i + 1)
       IN  applied' = [applied EXCEPT !.cards = cards, !.play = validatePlay(cards)]
    /\ UNCHANGED <<rooms, room, socket, player, last, hist, rounds, churn, indexed>>

NextClassify ==
    \/ ValidatePlay
    \/ \E i \in 1..MaxPermuted : Resend(i)

SpecClassify == InitClassify /\ [][NextClassify]_vars

(***************************************************************************)
(* Properties of validatePlay and canBeat.  The rank of a card is read off  *)
(* the card itself: key 1..13 for 3, 4, ..., K, A, 2, then the two jokers.  *)
(***************************************************************************)
KeyOf(c) ==
    IF c = BlackJoker THEN Len(ranks) + 1
    ELSE IF c = RedJoker THEN Len(ranks) + 2
    ELSE ((c - 1) % Len(ranks)) + 1

\* the rank value of a key of 3, ..., 10, J(11), Q(12), K(13), A(14), 2(15)
KeyValue(k) == k + 2

HeldKeys(cards) == {KeyOf(cards[i]) : i \in 1..Len(cards)}

Holding(cards, k) == Cardinality({i \in 1..Len(cards) : KeyOf(cards[i]) = k})

\* the cards are n cards of one rank
OfOneRank(cards, n) ==
    /\ Len(cards) = n
    /\ \E k \in 1..Len(ranks) : HeldKeys(cards) = {k}

\* the rank value of the lowest card
LowestValue(cards) == KeyValue(CHOOSE k \in HeldKeys(cards) : \A l \in HeldKeys(cards) : k <= l)

Classified == applied.fn = "validatePlay"

IsPlay(play, type, value) == play.type = type /\ play.value = value

\* the value order of single cards: 3 < 4 < ... < K < A < 2 < black < red joker
C24_CardValues ==
    /\ \A c \in Cards : c < BlackJoker => getCardValue(c) = KeyValue(KeyOf(c))
    /\ KeyValue(Len(ranks)) < getCardValue(BlackJoker)
    /\ getCardValue(BlackJoker) < getCardValue(RedJoker)

\* C24: classify (validatePlay) applies its rules in strict precedence: the
\* empty set is rejected; two jokers -> ROCKET value 1000; four cards of one
\* rank -> BOMB value 100 + rank value (never TRIPLE_WITH_SINGLE); one card
\* -> SOLO; two cards of one rank -> PAIR; three cards of one rank -> TRIPLE,
\* each with value equal to the rank value under 3 < 4 < ... < 10 < J(11) <
\* Q(12) < K(13) < A(14) < 2(15) < BlackJoker < RedJoker.
C24_BasicShapes ==
    /\ C24_CardValues
    /\ Classified =>
          LET cards == applied.cards
              play == applied.play
          IN  /\ Len(cards) = 0 => play = NoPlay
              /\ play # NoPlay => play.cards = cards
              /\ (Len(cards) = 2 /\ HeldKeys(cards) = {KeyOf(BlackJoker), KeyOf(RedJoker)})
                 => IsPlay(play, "rocket", 1000)
              /\ OfOneRank(cards, 4) => IsPlay(play, "bomb", 100 + LowestValue(cards))
              /\ Len(cards) = 1 => IsPlay(play, "solo", getCardValue(cards[1]))
              /\ OfOneRank(cards, 2) => IsPlay(play, "pair", LowestValue(cards))
              /\ OfOneRank(cards, 3) => IsPlay(play, "triple", LowestValue(cards))

\* four "2"s have been classified, as the highest bomb
C24_Witness ==
    /\ Classified
    /\ OfOneRank(applied.cards, 4)
    /\ applied.play.type = "bomb"
    /\ applied.play.value = 100 + KeyValue(Len(ranks))

\* the cards are `big` cards of one rank and `small` cards of another rank or
\* joker: rank-count shape {big, small}
HasShape(cards, big, small) ==
    /\ Len(cards) = big + small
    /\ \E k, l \in HeldKeys(cards) :
          /\ k # l
          /\ HeldKeys(cards) = {k, l}
          /\ Holding(cards, k) = big
          /\ Holding(cards, l) = small

\* the rank value of the rank held three times
TripleValue(cards) == KeyValue(CHOOSE k \in HeldKeys(cards) : Holding(cards, k) = 3)

\* C25: for every 4-card set of rank-count shape {3,1} and every 5-card set
\* of shape {3,2}, classify returns TRIPLE_WITH_SINGLE / TRIPLE_WITH_PAIR with
\* value equal to the rank value of the triple, whatever the attached cards
\* are (lower rank, higher rank, or a joker as the single).
C25_TripleWithAttachment ==
    Classified =>
        /\ HasShape(applied.cards, 3, 1)
           => IsPlay(applied.play, "triple_with_single", TripleValue(applied.cards))
        /\ HasShape(applied.cards, 3, 2)
           => IsPlay(applied.play, "triple_with_pair", TripleValue(applied.cards))

\* a triple has been classified with a lower pair attached: the value is the
\* triple's, not the lowest card's
C25_Witness ==
    /\ Classified
    /\ HasShape(applied.cards, 3, 2)
    /\ applied.play.type = "triple_with_pair"
    /\ applied.play.value > LowestValue(applied.cards)

\* the cards are `groups` consecutive ranks, `size` cards of each, all within
\* 3..A and none a joker
IsRun(cards, groups, size) ==
    /\ Len(cards) = groups * size
    /\ \E a \in 1..(Len(ranks) - 1) :
          /\ a + groups - 1 <= Len(ranks) - 1
          /\ HeldKeys(cards) = a..(a + groups - 1)
          /\ \A k \in a..(a + groups - 1) : Holding(cards, k) = size

IsRunOfAtLeast(cards, least, size) ==
    /\ Len(cards) % size = 0
    /\ Len(cards) \div size >= least
    /\ IsRun(cards, Len(cards) \div size, size)

Unimplemented ==
    {"airplane_with_singles", "airplane_with_pairs", "quad_with_singles", "quad_with_pairs"}

\* the card sets the rules of classify accept
ImplementedShape(cards) ==
    \/ Len(cards) = 2 /\ HeldKeys(cards) = {KeyOf(BlackJoker), KeyOf(RedJoker)}
    \/ OfOneRank(cards, 4)
    \/ Len(cards) = 1
    \/ OfOneRank(cards, 2)
    \/ OfOneRank(cards, 3)
    \/ HasShape(cards, 3, 1)
    \/ HasShape(cards, 3, 2)
    \/ Len(cards) >= 5 /\ IsRun(cards, Len(cards), 1)
    \/ IsRunOfAtLeast(cards, 3, 2)
    \/ IsRunOfAtLeast(cards, 2, 3)

\* four of a kind with two other cards, or two consecutive triples with two
\* other cards
HasAttachments(cards) ==
    \/ /\ Len(cards) = 6
       /\ \E k \in HeldKeys(cards) : Holding(cards, k) = 4
    \/ /\ Len(cards) = 8
       /\ \E k \in 1..(Len(ranks) - 2) :
             /\ Holding(cards, k) = 3
             /\ Holding(cards, k + 1) = 3
             /\ \A l \in HeldKeys(cards) \ {k, k + 1} : Holding(cards, l) = 1

\* C28: classify never returns AIRPLANE_WITH_SINGLES, AIRPLANE_WITH_PAIRS,
\* QUAD_WITH_SINGLES or QUAD_WITH_PAIRS: every card set matching none of the
\* eleven implemented shapes (e.g. four of a kind plus two singles, two
\* consecutive triples plus two singles) is rejected.
C28_AttachmentsNeverClassified ==
    Classified =>
        /\ applied.play.type \notin Unimplemented
        /\ ~ImplementedShape(applied.cards) => applied.play = NoPlay
        /\ HasAttachments(applied.cards) => applied.play = NoPlay

\* two consecutive triples with two single cards have been rejected
C28_Witness ==
    /\ Classified
    /\ Len(applied.cards) = 8
    /\ HasAttachments(applied.cards)
    /\ applied.play = NoPlay

\* seq with the entries at i and j exchanged
Exchanged(seq, i, j) ==
    [n \in 1..Len(seq) |-> IF n = i THEN seq[j] ELSE IF n = j THEN seq[i] ELSE seq[n]]

\* both rejected, or the same type and the same value
SameClass(p, q) == p.type = q.type /\ p.value = q.value

\* exchanging two neighbouring cards of a classified array of at most
\* MaxGiven cards does not change its class (every permutation is a chain of
\* such exchanges)
C29_ExchangeKeepsClass ==
    (Classified /\ Len(applied.cards) <= MaxGiven) =>
        \A i \in 1..(Len(applied.cards) - 1) :
            SameClass(validatePlay(Exchanged(applied.cards, i, i + 1)), applied.play)

\* the same cards sent again in another order are classified alike
C29_ResendKeepsClass ==
    (Classified /\ Classified') => SameClass(applied'.play, applied.play)

\* C29: classify is order-independent: for every card sequence and every
\* permutation of it, validatePlay either rejects both or returns the same
\* type and the same value for both.
C29_OrderIndependent ==
    [] C29_ExchangeKeepsClass /\ [][C29_ResendKeepsClass]_vars

\* a triple sent again with its first two cards exchanged is a triple still
C29_Witness ==
    /\ Classified
    /\ applied.play.type = "triple"
    /\ applied.cards[1] > applied.cards[2]

(***************************************************************************)
(* SpecCanBeat: Game.canBeat called on the classifications of two arrays,   *)
(* as playCards calls it on the play sent and the play on the table         *)
(* (room.ts:365-370).  Each array is a joker, both jokers, a run of         *)
(* consecutive ranks of at most MaxBeatCards cards, or a triple with the    *)
(* lowest other card or pair attached.                                      *)
(***************************************************************************)
MaxBeatCards == 6

BeatKeys ==
    {<<Len(ranks) + 1>>, <<Len(ranks) + 2>>, <<Len(ranks) + 1, Len(ranks) + 2>>}
    \cup {Run(t[1], t[2], t[3]) :
            t \in {u \in (1..Len(ranks)) \X (1..MaxBeatCards) \X (1..Len(suits)) :
                      /\ u[1] + u[2] - 1 <= Len(ranks)
                      /\ u[2] * u[3] <= MaxBeatCards}}
    \cup {t \in {Run(a, 1, 3) \o extra : a \in 1..Len(ranks),
                                          extra \in {<<1>>, <<1, 1>>, <<2>>, <<2, 2>>}} :
             InDeck(t)}

InitCanBeat ==
    /\ InitTable
    /\ \E keys, lastKeys \in BeatKeys :
          applied = [NoApplication EXCEPT !.cards = CardsOf(keys),
                                          !.lastCards = CardsOf(lastKeys)]

\* Game.validatePlay(lastCards), the classification of the play on the table
ValidateLast ==
    /\ applied.fn = "validatePlay"
    /\ applied' = [applied EXCEPT !.fn = "validateLast",
                                 !.lastPlay = validatePlay(applied.lastCards)]
    /\ UNCHANGED <<rooms, room, socket, player, last, hist, rounds, churn, indexed>>

\* Game.canBeat(play, lastPlay) on two classified plays
CanBeat ==
    /\ applied.fn = "validateLast"
    /\ applied.play # NoPlay
    /\ applied.lastPlay # NoPlay
    /\ applied' = [applied EXCEPT !.fn = "canBeat",
                                 !.beats = canBeat(applied.play, applied.lastPlay)]
    /\ UNCHANGED <<rooms, room, socket, player, last, hist, rounds, churn, indexed>>

NextCanBeat ==
    \/ ValidatePlay
    \/ ValidateLast
    \/ CanBeat

SpecCanBeat == InitCanBeat /\ [][NextCanBeat]_vars

\* C30: for all classified plays p and q, canBeat(p, q) is true if and only
\* if p is ROCKET, or p is BOMB and q is neither ROCKET nor a BOMB of equal or
\* higher value, or p and q have the same type and the same card count and
\* p.value > q.value.
C30_CanBeatIff ==
    applied.fn = "canBeat" =>
        LET p == applied.play
            q == applied.lastPlay
        IN  applied.beats <=>
                \/ p.type = "rocket"
                \/ /\ p.type = "bomb"
                   /\ q.type # "rocket"
                   /\ ~(q.type = "bomb" /\ q.value >= p.value)
                \/ /\ p.type = q.type
                   /\ Len(p.cards) = Len(q.cards)
                   /\ p.value > q.value

\* a bomb of 5s has been compared with a straight and beats it
C30_Witness ==
    /\ applied.fn = "canBeat"
    /\ IsPlay(applied.play, "bomb", 100 + 5)
    /\ applied.lastPlay.type = "straight"
    /\ applied.beats

(***************************************************************************)
(* The index-keyed Game of src/shared/game.ts: players are named by their   *)
(* index in game.players, bidding is incremental (betLandlord) and a pass   *)
(* is playCards([]).  A card is again the integer c of the position at      *)
(* which initializeDeck pushes it: suit by suit the ranks 1 (ace), 2, 3,    *)
(* ..., 13 (king), then the black and the red joker.                        *)
(***************************************************************************)
\* card.type and card.rank of the card pushed at position c
IndexedType(c) == IF c = Flipped THEN "Flipped" ELSE IF c >= BlackJoker THEN "Joker" ELSE "Playing"
IndexedRank(c) == ((c - 1) % Len(ranks)) + 1

\* the card { type: "Playing", suit: suits[suitIx], rank }
Playing(suitIx, rank) == (suitIx - 1) * Len(ranks) + rank

\* Hand.getCardValue of game.ts
indexed_getCardValue(c) ==
    IF IndexedType(c) = "Joker" THEN (IF c = BlackJoker THEN 53 ELSE 54)
    ELSE IF IndexedType(c) = "Flipped" THEN 55
    ELSE IF IndexedRank(c) = 2 THEN 20
    ELSE IF IndexedRank(c) = 1 THEN 19
    ELSE IndexedRank(c)

\* c inserted into the sorted s behind the cards it does not precede
indexed_InsertByValue(s, c) ==
    LET k == Cardinality({i \in 1..Len(s) :
                             indexed_getCardValue(s[i]) - indexed_getCardValue(c) <= 0})
    IN  SubSeq(s, 1, k) \o <<c>> \o SubSeq(s, k + 1, Len(s))

RECURSIVE indexed_sortFrom(_, _)
indexed_sortFrom(cards, acc) ==
    IF Len(acc) >= Len(cards) THEN acc
    ELSE indexed_sortFrom(cards, indexed_InsertByValue(acc, cards[Len(acc) + 1]))

\* Hand.sort of game.ts and the toSorted of validatePlayType (both stable)
indexed_sort(cards) == indexed_sortFrom(cards, <<>>)

\* Array.findIndex with Hand.cardsEqual of game.ts, 0 when not found: two
\* cards of the deck are equal when they are the same card
indexed_findIndex(cards, card) ==
    IF \E i \in 1..Len(cards) : cards[i] = card /\ card # Flipped
    THEN CHOOSE i \in 1..Len(cards) :
            /\ cards[i] = card
            /\ \A j \in 1..(i - 1) : cards[j] # card
    ELSE 0

RECURSIVE indexed_removeFrom(_, _, _, _)
indexed_removeFrom(handCards, cards, check, i) ==
    IF i > Len(cards) \/ Len(handCards) = 0 THEN handCards
    ELSE LET index == indexed_findIndex(handCards, cards[i])
         IN  indexed_removeFrom(
                 IF index # 0 THEN splice(handCards, index)
                 ELSE IF ~check THEN splice(handCards, Len(handCards))
                 ELSE handCards,
                 cards, check, i + 1)

\* Hand.remove of game.ts; splice(-1, 1) takes the last card off
indexed_remove(handCards, cards, check) == indexed_removeFrom(handCards, cards, check, 1)

\* Game.initializeDeck of game.ts: the deck is built in this.bottom
indexed_initializeDeck == [i \in 1..RedJoker |-> i]

\* Game.dealCards of game.ts: the hands of n players, dealt from
\* this.bottom[3] on and sorted; this.bottom itself is left as it is
indexed_dealCards(bottom, n) ==
    [p \in 1..n |->
        indexed_sort([i \in 1..17 |-> bottom[3 + (i - 1) * n + (p - 1) + 1]])]

\* Game.startGame(players) of game.ts with n players, Math.random taking
\* its seed-th outcome.  Game.shuffleDeck of game.ts is the loop of room.ts
\* run over this.bottom, so shuffleDeck serves for both.
indexed_startGame(g, n, seed) ==
    LET bottom == shuffleDeck(indexed_initializeDeck, seed)
    IN  [g EXCEPT !.players = indexed_dealCards(bottom, n),
                  !.bottom = bottom,
                  !.phase = "bidding",
                  !.currentIndex = 0]

\* the value a method of the index-keyed Game returns and the Game afterwards
IndexedResult(result, g) == [result |-> result, game |-> g]
Boolean(b) == IF b THEN "true" ELSE "false"

\* Game.betLandlord(bet)
betLandlord(g, bet) ==
    LET raised == bet > g.bet
        g1 == IF raised THEN [g EXCEPT !.bet = bet, !.landlordIndex = g.currentIndex]
              ELSE g
        g2 == [g1 EXCEPT !.currentIndex = (g1.currentIndex + 1) % Len(g1.players)]
    IN  IF raised /\ bet = 3 THEN IndexedResult("true", g1)
        ELSE IndexedResult(Boolean(g2.currentIndex = g2.landlordIndex), g2)

\* Game.becomeLandlord(bottom) of game.ts
indexed_becomeLandlord(g, bottom) ==
    IF g.phase # "bidding" THEN g
    ELSE [g EXCEPT !.players[g.currentIndex + 1] = indexed_sort(@ \o bottom),
                   !.bottom = <<>>,
                   !.phase = "playing",
                   !.lastPlay = NoIndexedPlay,
                   !.landlordIndex = g.currentIndex]

\* Game.countRanks of game.ts: the count under each key (the rank of a
\* playing card, 14 and 15 for "joker_BLACK" and "joker_RED", 0 for "flipped")
IndexedKey(c) ==
    IF IndexedType(c) = "Joker" THEN (IF c = BlackJoker THEN 14 ELSE 15)
    ELSE IF IndexedType(c) = "Playing" THEN IndexedRank(c)
    ELSE 0

indexed_countRanks(cards) ==
    [k \in {IndexedKey(cards[i]) : i \in 1..Len(cards)} |->
        Cardinality({i \in 1..Len(cards) : IndexedKey(cards[i]) = k})]

\* Game.isStraight of game.ts
indexed_isStraight(sorted, groupSize) ==
    IF Len(sorted) % groupSize # 0 THEN FALSE
    ELSE IF \E i \in 1..Len(sorted) : IndexedType(sorted[i]) # "Playing" THEN FALSE
    ELSE LET numberGroups == Len(sorted) \div groupSize
             firstCard(index) == sorted[index * groupSize + 1]
             groupFails(index) ==
                 \/ \E i \in (index * groupSize + 1)..((index + 1) * groupSize) :
                       IndexedRank(sorted[i]) # IndexedRank(firstCard(index))
                 \/ /\ index > 0
                    /\ LET expectedValue == indexed_getCardValue(firstCard(index - 1)) + 1
                           actualValue == indexed_getCardValue(firstCard(index))
                       IN  actualValue # expectedValue \/ actualValue >= 13
         IN  IF \E index \in 0..(numberGroups - 1) : groupFails(index) THEN FALSE
             ELSE numberGroups >= (IF groupSize = 1 THEN 5 ELSE IF groupSize = 2 THEN 3 ELSE 2)

\* absent result of validatePlayType
NoPlayType == [type |-> "undefined", value |-> 0]
PlayType(type, value) == [type |-> type, value |-> value]

\* sorted.find(c => (c.type === "Playing" && c.rank === Number(tripleRank))
\*                  || c.type === "Joker")
indexed_findTripleCard(sorted, tripleRank) ==
    sorted[CHOOSE i \in 1..Len(sorted) :
              /\ \/ IndexedType(sorted[i]) = "Playing" /\ IndexedRank(sorted[i]) = tripleRank
                 \/ IndexedType(sorted[i]) = "Joker"
              /\ \A j \in 1..(i - 1) :
                    ~(\/ IndexedType(sorted[j]) = "Playing" /\ IndexedRank(sorted[j]) = tripleRank
                      \/ IndexedType(sorted[j]) = "Joker")]

\* Game.validatePlayType(cards)
validatePlayType(cards) ==
    IF Len(cards) = 0 THEN NoPlayType
    ELSE
    LET sorted == indexed_sort(cards)
        rankCounts == indexed_countRanks(sorted)
        uniqueRanks == DOMAIN rankCounts
        counts == {rankCounts[k] : k \in uniqueRanks}
        length == Cardinality(uniqueRanks)
        tripleRank == CHOOSE r \in uniqueRanks : rankCounts[r] = 3
        firstValue == indexed_getCardValue(sorted[1])
    IN  IF /\ Len(sorted) = 2
           /\ IndexedType(sorted[1]) = "Joker"
           /\ IndexedType(sorted[2]) = "Joker"
        THEN PlayType("rocket", 1000)
        ELSE IF Len(sorted) = 4 /\ length = 1 /\ counts = {4}
        THEN PlayType("bomb", 100 + firstValue)
        ELSE IF Len(sorted) = 1
        THEN PlayType("solo", firstValue)
        ELSE IF Len(sorted) = 2 /\ length = 1 /\ counts = {2}
        THEN PlayType("pair", firstValue)
        ELSE IF Len(sorted) = 3 /\ length = 1 /\ counts = {3}
        THEN PlayType("triple", firstValue)
        ELSE IF Len(sorted) = 4 /\ length = 2 /\ 3 \in counts /\ 1 \in counts
        THEN PlayType("triple_with_single",
                      indexed_getCardValue(indexed_findTripleCard(sorted, tripleRank)))
        ELSE IF Len(sorted) = 5 /\ length = 2 /\ 3 \in counts /\ 2 \in counts
        THEN PlayType("triple_with_pair",
                      indexed_getCardValue(indexed_findTripleCard(sorted, tripleRank)))
        ELSE IF Len(sorted) >= 5 /\ indexed_isStraight(sorted, 1)
        THEN PlayType("straight", firstValue)
        ELSE IF Len(sorted) >= 6 /\ Len(sorted) % 2 = 0 /\ indexed_isStraight(sorted, 2)
        THEN PlayType("pair_straight", firstValue)
        ELSE IF Len(sorted) >= 6 /\ Len(sorted) % 3 = 0 /\ indexed_isStraight(sorted, 3)
        THEN PlayType("triple_straight", firstValue)
        ELSE NoPlayType

\* Game.playCards(cards, check) of game.ts
\* Game.playCards with check set, from the phase test on: playType is
\* validatePlayType(cards) and hand the current player's hand without cards
indexed_playChecked(g, cards, playType, hand) ==
    LET play == [cards |-> cards, type |-> playType.type, value |-> playType.value,
                 playerIndex |-> g.currentIndex]
        g1 == IF Len(cards) > 0
              THEN [g EXCEPT !.players[g.currentIndex + 1] = hand, !.lastPlay = play]
              ELSE g
        g2 == [g1 EXCEPT !.currentIndex = (g1.currentIndex + 1) % Len(g1.players)]
        g3 == IF g2.lastPlay # NoIndexedPlay /\ g2.lastPlay.playerIndex = g2.currentIndex
              THEN [g2 EXCEPT !.lastPlay = NoIndexedPlay]
              ELSE g2
    IN  IF Len(cards) > 0 /\ playType = NoPlayType THEN IndexedResult("undefined", g)
        ELSE IF /\ Len(cards) > 0
                /\ g.lastPlay # NoIndexedPlay
                /\ ~canBeat(play, g.lastPlay)
        THEN IndexedResult("undefined", g)
        ELSE IF Len(cards) > 0 /\ Len(hand) = 0
        THEN IndexedResult("true", [g1 EXCEPT !.phase = "finished"])
        ELSE IndexedResult("false", g3)

indexed_playCards(g, cards, check) ==
    IF g.phase # "playing" THEN IndexedResult("undefined", g)
    ELSE IF ~check
    THEN LET hand == indexed_remove(g.players[g.currentIndex + 1], cards, FALSE)
         IN  IndexedResult(Boolean(Len(hand) = 0),
                           [g EXCEPT !.players[g.currentIndex + 1] = hand])
    ELSE indexed_playChecked(g, cards, validatePlayType(cards),
                             indexed_remove(g.players[g.currentIndex + 1], cards, check))

(***************************************************************************)
(* SpecIndexed: one Game object of the index-keyed revision, driven as its  *)
(* Room drives it (Room.tryStartRoom starts a round on the Game the Room    *)
(* was constructed with) and as the bidding protocol prescribes: three      *)
(* players, bets until betLandlord returns true, then becomeLandlord() with *)
(* its default argument, then playCards until a hand is empty.  The current *)
(* player submits its lowest card; it passes with playCards([]) when that   *)
(* card is rejected and, MaxOpeningPasses times, on an open trick.          *)
(***************************************************************************)
\* startGame calls explored
MaxIndexedRounds == 2
\* outcomes of Math.random enumerated for one shuffle of SpecIndexed: 0..MaxIndexedSeed
MaxIndexedSeed == 0
\* betLandlord calls without a raise explored in a row
MaxQuiet == 4
\* the bet that ends the bidding at once; bets are 0..MaxBet
MaxBet == 3
\* playCards([]) calls explored while lastPlay is undefined
MaxOpeningPasses == 1

\* room.tryStartRoom() -> game.startGame([...players]) with three players
IndexedStartGame(seed) ==
    /\ indexed.game.phase = "finished"
    /\ indexed.round < MaxIndexedRounds
    /\ indexed' = [indexed EXCEPT
                      !.game = indexed_startGame(indexed.game, SeatCount, seed),
                      !.fn = "startGame", !.arg = <<>>, !.result = "undefined",
                      !.before = [currentIndex |-> indexed.game.currentIndex,
                                  lastPlay |-> indexed.game.lastPlay],
                      !.round = @ + 1, !.top = 0, !.highest = Undefined,
                      !.quiet = 0, !.over = FALSE]
    /\ UNCHANGED <<rooms, room, socket, player, last, hist, rounds, churn, applied>>

\* game.betLandlord(bet) by the current player while the bidding is open
IndexedBetLandlord(bet) ==
    /\ indexed.game.phase = "bidding"
    /\ ~indexed.over
    /\ indexed.quiet < MaxQuiet
    /\ LET res == betLandlord(indexed.game, bet)
           raise == bet > indexed.top
       IN  indexed' = [indexed EXCEPT
                          !.game = res.game,
                          !.fn = "betLandlord", !.arg = <<bet>>, !.result = res.result,
                          !.before = [currentIndex |-> indexed.game.currentIndex,
                                      lastPlay |-> indexed.game.lastPlay],
                          !.top = IF raise THEN bet ELSE @,
                          !.highest = IF raise THEN indexed.game.currentIndex ELSE @,
                          !.quiet = IF raise THEN 0
                                    ELSE IF res.result = "true" THEN @ ELSE @ + 1,
                          !.over = res.result = "true"]
    /\ UNCHANGED <<rooms, room, socket, player, last, hist, rounds, churn, applied>>

\* game.becomeLandlord() once the bidding is over
IndexedBecomeLandlord ==
    /\ indexed.game.phase = "bidding"
    /\ indexed.over
    /\ indexed' = [indexed EXCEPT
                      !.game = indexed_becomeLandlord(indexed.game, indexed.game.bottom),
                      !.fn = "becomeLandlord", !.arg = indexed.game.bottom,
                      !.result = "undefined",
                      !.before = [currentIndex |-> indexed.game.currentIndex,
                                  lastPlay |-> indexed.game.lastPlay]]
    /\ UNCHANGED <<rooms, room, socket, player, last, hist, rounds, churn, applied>>

\* game.playCards(cards) by the current player
IndexedPlayCards(cards) ==
    /\ indexed.game.phase = "playing"
    /\ LET res == indexed_playCards(indexed.game, cards, TRUE)
       IN  indexed' = [indexed EXCEPT
                          !.game = res.game,
                          !.fn = "playCards", !.arg = cards, !.result = res.result,
                          !.before = [currentIndex |-> indexed.game.currentIndex,
                                      lastPlay |-> indexed.game.lastPlay],
                          !.openings = IF cards = <<>> /\ indexed.game.lastPlay = NoIndexedPlay
                                       THEN @ + 1 ELSE @]
    /\ UNCHANGED <<rooms, room, socket, player, last, hist, rounds, churn, applied>>

\* the submissions of the current player: the lowest card held, and a pass
\* when that card is rejected or the trick is open
IndexedInputCards ==
    LET g == indexed.game
        lowest == SubSeq(g.players[g.currentIndex + 1], 1, 1)
    IN  IF g.phase # "playing" THEN {}
        ELSE {lowest}
             \cup {cards \in {<<>>} :
                      \/ indexed_playCards(g, lowest, TRUE).result = "undefined"
                      \/ g.lastPlay = NoIndexedPlay /\ indexed.openings < MaxOpeningPasses}

NextIndexed ==
    \/ \E seed \in 0..MaxIndexedSeed : IndexedStartGame(seed)
    \/ \E bet \in 0..MaxBet : IndexedBetLandlord(bet)
    \/ IndexedBecomeLandlord
    \/ \E cards \in IndexedInputCards : IndexedPlayCards(cards)

SpecIndexed == Init /\ [][NextIndexed]_vars

(***************************************************************************)
(* Properties of the index-keyed Game.                                      *)
(***************************************************************************)
\* C31: betLandlord returns true exactly when the bet just made is 3 or the
\* turn has come full circle back to the highest bidder, and whenever it
\* returns true currentIndex equals landlordIndex, the index of the player
\* who made the highest bet of the current round.
C31_BiddingEndsAtThreeOrFullCircle ==
    indexed.fn = "betLandlord" =>
        LET g == indexed.game
        IN  /\ indexed.result = "true" <=>
                  \/ indexed.arg = <<MaxBet>>
                  \/ indexed.highest # Undefined /\ g.currentIndex = indexed.highest
            /\ indexed.result = "true" =>
                  /\ g.currentIndex = g.landlordIndex
                  /\ g.landlordIndex = indexed.highest

\* C32: after startGame with three players followed by becomeLandlord() with
\* its default argument, the landlord holds 20 cards (17 dealt plus the 3
\* bottom cards) and each other player holds 17, with no card held twice.
C32_IndexedLandlordHolds20 ==
    indexed.fn = "becomeLandlord" =>
        LET g == indexed.game
            held == g.players[1] \o g.players[2] \o g.players[3]
        IN  /\ \A p \in 1..Len(g.players) :
                  Len(g.players[p]) = IF p = g.landlordIndex + 1 THEN 20 ELSE 17
            /\ \A c \in Cards : Count(held, c) <= 1

\* C34: a pass -- playCards([]) -- submitted when lastPlay is undefined is
\* rejected and leaves currentIndex unchanged: a trick cannot be opened by
\* passing.
C34_PassCannotOpenTrick ==
    (/\ indexed.fn = "playCards"
     /\ indexed.arg = <<>>
     /\ indexed.before.lastPlay = NoIndexedPlay)
    => /\ indexed.result = "undefined"
       /\ indexed.game.currentIndex = indexed.before.currentIndex

\* C37: bidding always terminates: from the state after startGame, for every
\* sequence of bets in 0..3, every player betting 0 included, some
\* betLandlord call within one full circle after the last raise (after
\* startGame when nobody raised) returns true: the calls that returned false
\* since then never make a full circle.
C37_BiddingTerminates ==
    indexed.game.phase = "bidding" =>
        indexed.quiet < Len(indexed.game.players)

(***************************************************************************)
(* SpecPlayType: Game.validatePlayType of game.ts called on one array of    *)
(* cards.  The array is drawn by the ranks of its cards as in SpecClassify: *)
(* key k <= 11 is the rank k + 2 (3 to king), 12 the ace, 13 the "2", 14    *)
(* and 15 the jokers; the i-th card of a rank takes the i-th suit.          *)
(***************************************************************************)
IndexedKeyCard(keys, i) ==
    IF keys[i] = Len(ranks) + 1 THEN BlackJoker
    ELSE IF keys[i] = Len(ranks) + 2 THEN RedJoker
    ELSE Playing(Cardinality({j \in 1..i : keys[j] = keys[i]}),
                 IF keys[i] <= 11 THEN keys[i] + 2 ELSE keys[i] - 11)

IndexedCardsOf(keys) == [i \in 1..Len(keys) |-> IndexedKeyCard(keys, i)]

GivenIndexed(keys) == applied = [NoApplication EXCEPT !.cards = IndexedCardsOf(keys)]

InitPlayType ==
    /\ InitTable
    /\ \/ \E n \in 0..MaxGiven : \E s \in Ascending(n) : GivenIndexed(Reverse(s))
       \/ \E a \in 1..Len(ranks) : \E size \in 1..Len(suits) :
          \E groups \in 1..(MaxRunCards \div size) :
          \E n \in 0..MaxAttached : \E extra \in Ascending(n) :
             /\ a + groups - 1 <= Len(ranks)
             /\ InDeck(Run(a, groups, size) \o extra)
             /\ GivenIndexed(Run(a, groups, size) \o extra)

\* Game.validatePlayType(cards)
ValidatePlayType ==
    /\ applied.fn = "none"
    /\ applied' = [applied EXCEPT !.fn = "validatePlayType",
                                 !.play = validatePlayType(applied.cards)]
    /\ UNCHANGED <<rooms, room, socket, player, last, hist, rounds, churn, indexed>>

\* the client sends the same cards with two neighbours exchanged
ResendIndexed(i) ==
    /\ applied.fn = "validatePlayType"
    /\ Len(applied.cards) <= MaxPermuted
    /\ i < Len(applied.cards)
    /\ LET cards == swap(applied.cards, i, i + 1)
       IN  applied' = [applied EXCEPT !.cards = cards, !.play = validatePlayType(cards)]
    /\ UNCHANGED <<rooms, room, socket, player, last, hist, rounds, churn, indexed>>

NextPlayType ==
    \/ ValidatePlayType
    \/ \E i \in 1..MaxPermuted : ResendIndexed(i)

SpecPlayType == InitPlayType /\ [][NextPlayType]_vars

\* the rank of a card of game.ts as a key: 1..11 for 3 to king, 12 for the
\* ace, 13 for the "2", 14 and 15 for the jokers
IndexedKeyOf(c) ==
    IF c = BlackJoker THEN Len(ranks) + 1
    ELSE IF c = RedJoker THEN Len(ranks) + 2
    ELSE IF IndexedRank(c) >= 3 THEN IndexedRank(c) - 2
    ELSE IndexedRank(c) + 11

IndexedHeldKeys(cards) == {IndexedKeyOf(cards[i]) : i \in 1..Len(cards)}

\* C33: in the index-keyed validatePlayType, five or more cards of distinct
\* consecutive ranks whose top card is a king or an ace (9-10-J-Q-K,
\* 10-J-Q-K-A) classify as STRAIGHT, while arrays containing a "2" or a
\* joker do not.
C33_IndexedStraightTopsAtKingOrAce ==
    applied.fn = "validatePlayType" =>
        LET cards == applied.cards
            held == IndexedHeldKeys(cards)
        IN  /\ (/\ Len(cards) >= 5
                /\ Cardinality(held) = Len(cards)
                /\ \E a \in 1..12 : \E b \in {11, 12} : held = a..b)
               => applied.play.type = "straight"
            /\ (held \cap {13, 14, 15} # {}) => applied.play.type # "straight"

(***************************************************************************)
(* Further properties of the server.                                        *)
(***************************************************************************)
\* C36: in every round, the landlord and the player whose emptied hand ends
\* the round are among the three players dealt cards at that round's
\* startGame; a player who joins the room while it is PLAYING never becomes
\* currentPlayerId, landlord or winner of that round.
C36_RoundRolesWereDealt ==
    \A r \in rooms :
        LET g == room[r].game
            dealt == Range(hist[r].seating)
        IN  /\ (room[r].status = "playing" /\ g.phase = "playing")
               => g.landlordId \in dealt /\ g.currentPlayerId \in dealt
            /\ (/\ last.op = "play-cards" /\ last.ok /\ RoomOf(last.who) = r
                /\ g.phase = "finished")
               => player[last.who].id \in dealt

\* C38: after any handler completes, each connected player is seated in the
\* roster of at most one room: handling join-room or create-room for a
\* socket that is already in a room does not leave that player seated in
\* the previous room.
C38_SeatedInAtMostOneRoom ==
    \A s \in Sockets :
        socket[s].conn = "up" =>
            Cardinality({r \in rooms : player[s].id \in Range(RosterIds(room[r]))}) <= 1

(***************************************************************************)
(* The client replica: gs.room.game of a client in the room, deserialized   *)
(* from "started-room" and updated by the handlers that initGameSocket      *)
(* registers for the events the server broadcasts.  A replica is the record *)
(* of the fields those handlers write; ids are the ids of gs.room.players   *)
(* in order.                                                                *)
(***************************************************************************)
\* Game.deserialize(game.serialize()): the replica that agrees with g
ReplicaOf(g) ==
    [currentPlayerId |-> g.currentPlayerId, landlordId |-> g.landlordId,
     lastPlay |-> g.lastPlay, passCount |-> g.passCount]

\* players[(players.findIndex(p => p.id === playerId) + 1) % players.length].id
ReplicaNextId(ids, playerId) ==
    LET currentIndex == IF \E i \in 1..Len(ids) : ids[i] = playerId
                        THEN (CHOOSE i \in 1..Len(ids) :
                                 ids[i] = playerId /\ \A j \in 1..(i - 1) : ids[j] # playerId) - 1
                        ELSE -1
    IN  ids[((currentIndex + 1) % Len(ids)) + 1]

\* gs.socket.on("p-became-landlord")
onBecameLandlord(replica, playerId) ==
    [replica EXCEPT !.landlordId = playerId, !.currentPlayerId = playerId]

\* gs.socket.on("p-played-cards")
onPlayedCards(replica, ids, playerId, play) ==
    [replica EXCEPT !.lastPlay = play,
                    !.passCount = 0,
                    !.currentPlayerId = ReplicaNextId(ids, playerId)]

\* gs.socket.on("p-passed")
onPassed(replica, ids, playerId) ==
    LET passCount == replica.passCount + 1
    IN  [replica EXCEPT !.lastPlay = IF passCount >= 2 THEN NoPlay ELSE @,
                        !.passCount = IF passCount >= 2 THEN 0 ELSE passCount,
                        !.currentPlayerId = ReplicaNextId(ids, playerId)]

\* the replica of a client of room r after the event that the handler of
\* this step broadcast, when it agreed with the server before the step
ReplicaAfter(r) ==
    LET replica == ReplicaOf(room[r].game)
        ids == RosterIds(room[r])
        playerId == player[last'.who].id
    IN  IF last'.op = "become-landlord" THEN onBecameLandlord(replica, playerId)
        ELSE IF last'.op = "play-cards"
        THEN onPlayedCards(replica, ids, playerId, room'[r].game.lastPlay)
        ELSE onPassed(replica, ids, playerId)

\* C39: client replica agreement: after a client applies the
\* p-became-landlord, p-played-cards and p-passed events in the order the
\* server broadcast them, its replica's currentPlayerId, lastPlay and
\* passCount equal the server Game's values after the corresponding accepted
\* operation (including the play that wins the round): a replica that agrees
\* with the server before an accepted operation agrees with it after the
\* event of that operation.
C39_ReplicaStep ==
    \A r \in rooms :
        (/\ last'.op \in {"become-landlord", "play-cards", "pass"}
         /\ last'.ok
         /\ RoomOf(last'.who) = r)
        => /\ ReplicaAfter(r).currentPlayerId = room'[r].game.currentPlayerId
           /\ ReplicaAfter(r).lastPlay = room'[r].game.lastPlay
           /\ ReplicaAfter(r).passCount = room'[r].game.passCount

C39_ReplicaAgrees == [][C39_ReplicaStep]_vars

(***************************************************************************)
(* SpecOrder: Game.canBeat called on the classifications of three arrays,   *)
(* in every direction the order needs.  Each array is a joker, both jokers, *)
(* a run of at most MaxBeatCards cards that starts at one of the lowest     *)
(* MaxOrderRank ranks, or a triple of such a rank with an attachment, and   *)
(* classifies.  The second array takes its suits from the other end, so     *)
(* that it shares a card with the first only when a rank runs out of suits. *)
(***************************************************************************)
MaxOrderRank == 3

OrderKeys ==
    {k \in {<<Len(ranks) + 1>>, <<Len(ranks) + 2>>, <<Len(ranks) + 1, Len(ranks) + 2>>}
           \cup {Run(t[1], t[2], t[3]) :
                   t \in {u \in (1..MaxOrderRank) \X (1..MaxBeatCards) \X (1..Len(suits)) :
                             u[2] * u[3] <= MaxBeatCards}}
           \cup {t \in {Run(a, 1, 3) \o extra : a \in 1..MaxOrderRank,
                                                 extra \in {<<1>>, <<1, 1>>, <<2>>, <<2, 2>>}} :
                    InDeck(t)} :
        validatePlay(CardsOf(k)) # NoPlay}

\* the cards named by keys, the i-th card of a rank taking the i-th suit
\* from the end
CardsFromTop(keys) ==
    [i \in 1..Len(keys) |->
        IF keys[i] > Len(ranks) THEN KeyCard(keys, i)
        ELSE Revealed(Len(suits) + 1 - Cardinality({j \in 1..i : keys[j] = keys[i]}),
                      keys[i])]

InitOrder ==
    /\ InitTable
    /\ \E keys, lastKeys, thirdKeys \in OrderKeys :
          applied = [NoApplication EXCEPT !.cards = CardsOf(keys),
                                          !.lastCards = CardsFromTop(lastKeys),
                                          !.thirdCards = CardsOf(thirdKeys)]

\* Game.validatePlay(thirdCards)
ValidateThird ==
    /\ applied.fn = "validateLast"
    /\ applied' = [applied EXCEPT !.fn = "validateThird",
                                 !.thirdPlay = validatePlay(applied.thirdCards)]
    /\ UNCHANGED <<rooms, room, socket, player, last, hist, rounds, churn, indexed>>

\* Game.canBeat on the three classified plays
CanBeatAll ==
    /\ applied.fn = "validateThird"
    /\ applied.play # NoPlay /\ applied.lastPlay # NoPlay /\ applied.thirdPlay # NoPlay
    /\ applied' = [applied EXCEPT
                      !.fn = "canBeatAll",
                      !.beats = canBeat(applied.play, applied.lastPlay),
                      !.back = canBeat(applied.lastPlay, applied.play),
                      !.lastBeats = canBeat(applied.lastPlay, applied.thirdPlay),
                      !.through = canBeat(applied.play, applied.thirdPlay)]
    /\ UNCHANGED <<rooms, room, socket, player, last, hist, rounds, churn, indexed>>

NextOrder ==
    \/ ValidatePlay
    \/ ValidateLast
    \/ ValidateThird
    \/ CanBeatAll

SpecOrder == InitOrder /\ [][NextOrder]_vars

\* C40: on plays that validatePlay produces from cards of a single 54-card
\* deck, canBeat is a strict partial order: canBeat(p, q) and canBeat(q, p)
\* never both hold for plays made of disjoint cards, and canBeat(p, q)
\* together with canBeat(q, r) implies canBeat(p, r).
C40_CanBeatIsStrictOrder ==
    applied.fn = "canBeatAll" =>
        /\ (Range(applied.cards) \cap Range(applied.lastCards) = {})
           => ~(applied.beats /\ applied.back)
        /\ (applied.beats /\ applied.lastBeats) => applied.through

\* a bomb beats a pair that beats a lower pair of the same rank count, the
\* first two made of disjoint cards, and the bomb beats the lower pair
C40_Witness ==
    /\ applied.fn = "canBeatAll"
    /\ Range(applied.cards) \cap Range(applied.lastCards) = {}
    /\ applied.play.type = "bomb"
    /\ applied.lastPlay.type = "pair"
    /\ applied.thirdPlay.type = "pair"
    /\ applied.beats /\ applied.lastBeats /\ applied.through
    /\ ~applied.back

(***************************************************************************)
(* SpecPlayOut: the end of a round.  Room 1 was started and one of its      *)
(* three players became landlord; since then every player has played all    *)
(* but the lowest MaxHeld cards of the sorted hand, and one of them is to    *)
(* lead the next trick.  From there the clients submit any cards of their   *)
(* own hands and pass, without a bound on the number of turns.              *)
(* SpecPlayOutFair adds that an accepted submission keeps arriving while    *)
(* one is possible.                                                         *)
(***************************************************************************)
MaxHeld == 3

\* the cards of handCards at the positions in picked, in hand order
Pick(handCards, picked) ==
    LET nth[i \in 1..Cardinality(picked)] ==
            CHOOSE k \in picked : Cardinality({j \in picked : j <= k}) = i
    IN  [i \in 1..Cardinality(picked) |-> handCards[nth[i]]]

\* room 1 and its Player objects after the third toggle-ready started it
PlayOutStarted ==
    tryStartRoom([NewRoom(1) EXCEPT !.players = [i \in Seated |-> i]],
                 [s \in Sockets |->
                     IF s \in Seated THEN [NewPlayer(s) EXCEPT !.status = "ready"]
                     ELSE NewPlayer(s)],
                 0)

\* the game and the Player objects after become-landlord of each client
PlayOutBid ==
    [landlord \in Seated |->
        becomeLandlord(PlayOutStarted.room.game, PlayOutStarted.player, landlord)]

InitPlayOut ==
    \E landlord \in Seated :
    \E current \in Seated :
        LET started == PlayOutStarted
            bid == PlayOutBid[landlord]
        IN  /\ rooms = {1}
            /\ room = [r \in RoomIds |->
                         IF r = 1
                         THEN [started.room EXCEPT
                                  !.game = [bid.game EXCEPT
                                               !.currentPlayerId = bid.player[current].id]]
                         ELSE NewRoom(0)]
            /\ socket = [s \in Sockets |->
                           IF s \in Seated THEN [conn |-> "up", room |-> 1]
                           ELSE [conn |-> "none", room |-> 0]]
            /\ player = [s \in Sockets |->
                           IF s \in Seated
                           THEN [bid.player[s] EXCEPT !.hand = SubSeq(@, 1, MaxHeld)]
                           ELSE bid.player[s]]
            /\ last = NoCall
            /\ hist = [r \in RoomIds |->
                         IF r = 1
                         THEN [NewRound([i \in Seated |-> i]) EXCEPT !.landlords = 1]
                         ELSE NewRound(<<>>)]
            /\ rounds = 1
            /\ churn = 0
            /\ applied = NoApplication
            /\ indexed = NewIndexed

\* what a client submits: one card, two cards or the whole of its hand, or
\* its first card twice
PlayOutCards(handCards) ==
    {Pick(handCards, picked) : picked \in SUBSET (1..Len(handCards)) \ {{}}}
    \cup {<<handCards[i], handCards[i]>> : i \in {1} \cap (1..Len(handCards))}

\* socket.on("play-cards"), the number of turns not bounded
PlayOut(s, cards) ==
    /\ InRoom(s)
    /\ room[socket[s].room].status = "playing"
    /\ validatePlay(cards) # NoPlay
    /\ LET r == socket[s].room
           players == room[r].players
           res == playCards(room[r].game, player, s, cards, players)
           ended == endRoom([room[r] EXCEPT !.game = res.game], res.player)
       IN  /\ IF res.ok /\ Len(res.player[s].hand) = 0
              THEN room' = [room EXCEPT ![r] = ended.room] /\ player' = ended.player
              ELSE room' = [room EXCEPT ![r].game = res.game] /\ player' = res.player
           /\ last' = Call("play-cards", s, res.ok)
           /\ hist' = IF res.ok
                      THEN [hist EXCEPT ![r].leader = player[s].id, ![r].passes = 0]
                      ELSE hist
    /\ UNCHANGED <<rooms, socket, rounds, churn, applied, indexed>>

\* socket.on("pass"), the number of turns not bounded
PassOut(s) ==
    /\ InRoom(s)
    /\ room[socket[s].room].status = "playing"
    /\ LET r == socket[s].room
           res == pass(room[r].game, player, s, room[r].players)
       IN  /\ room' = [room EXCEPT ![r].game = res.game]
           /\ player' = res.player
           /\ last' = Call("pass", s, res.ok)
           /\ hist' = IF res.ok THEN [hist EXCEPT ![r].passes = @ + 1] ELSE hist
    /\ UNCHANGED <<rooms, socket, rounds, churn, applied, indexed>>

NextPlayOut ==
    \/ \E s \in Sockets : \E cards \in PlayOutCards(player[s].hand) : PlayOut(s, cards)
    \/ \E s \in Sockets : PassOut(s)

SpecPlayOut == InitPlayOut /\ [][NextPlayOut]_vars

\* a submission of cards or a pass that the game accepts
AcceptedTurn ==
    /\ last'.ok
    /\ NextPlayOut

\* some client of room 1 has a submission that the game accepts
TurnPossible ==
    \E s \in Seated :
        \/ pass(room[1].game, player, s, room[1].players).ok
        \/ \E cards \in PlayOutCards(player[s].hand) :
              /\ validatePlay(cards) # NoPlay
              /\ playCards(room[1].game, player, s, cards, room[1].players).ok

\* Accepted submissions keep arriving: weak fairness of AcceptedTurn,
\* WF_vars(AcceptedTurn), written out with "room 1 is PLAYING" for
\* ENABLED <<AcceptedTurn>>_vars.  While the room is PLAYING the current
\* player holds a card, and either lastPlay is set and its pass is accepted
\* or lastPlay is unset and any single card of its hand is.
FairTurns ==
    \/ []<>(room[1].status # "playing")
    \/ []<><<AcceptedTurn>>_vars

SpecPlayOutFair == SpecPlayOut /\ FairTurns

\* C35: from any PLAYING state of a three-player round, if accepted
\* submissions keep arriving and every play is made of cards of the acting
\* player's own hand, the phase eventually becomes FINISHED; never more
\* than two consecutive passes are accepted; and while the room is PLAYING
\* some submission would be accepted.
C35_RoundFinishes ==
    /\ (room[1].game.phase = "playing") ~> (room[1].game.phase = "finished")
    /\ [](hist[1].passes <= 2)
    /\ [](room[1].status = "playing" => TurnPossible)

\* the round has finished and the room is a lobby again: the last call was an
\* accepted play-cards of the player who emptied the hand
C35_Witness ==
    /\ room[1].game.phase = "finished"
    /\ room[1].status = "lobby"
    /\ last.op = "play-cards" /\ last.ok
    /\ hist[1].leader = player[last.who].id
    /\ hist[1].passes = 0
====
